---- MODULE Spec2Model ----
(***************************************************************************)
(* A model of the document-to-text extraction code of MyStudyBuddy:        *)
(*   src/processors.py        DocumentProcessor (Tesseract OCR) and        *)
(*   src/processorsvision.py  DocumentExtractor (GPT-4 Vision) + its app.  *)
(*                                                                         *)
(* A Python str is a sequence of tokens.  A token is a single character    *)
(* ("1", ".", " ", "\n"), a run of letters standing for a word or phrase   *)
(* ("Intro"), or one literal piece of a format string of the code          *)
(* ("--- Page ").  Concatenation is \o, so formatting, joining, stripping  *)
(* and the regular expressions of remove_numbering are computed on the     *)
(* tokens the way Python computes them on characters.                      *)
(*                                                                         *)
(* A call that may raise returns [exc |-> message, val |-> value]; exc is  *)
(* NoExc when the call returned normally.                                  *)
(***************************************************************************)
EXTENDS Integers, Sequences, FiniteSets, TLC

(***************************************************************************)
(* Bounds of the model.                                                    *)
(***************************************************************************)
\* Longest PDF, in pages.
MaxPages == 3
\* Longest DOCX body, in block elements (paragraphs and tables).
MaxBody == 3
\* Longest PPTX deck, in slides.
MaxSlides == 3
\* The pixels of an image handed to preprocess_image.
MaxPixels == 2
\* The calls of preprocess_image in one behaviour.
MaxRuns == 3
\* Longest text handed to remove_numbering, in characters.
MaxText == 5
\* The most cards a generated deck holds.
MaxCards == 2
\* The largest max_flashcards an analysis of the text answers.
MaxCapacity == 2

(***************************************************************************)
(* The state.                                                              *)
(***************************************************************************)
VARIABLES
    op,             \* the entry point of the request
    arg,            \* its arguments
    pc,             \* "pending" before the call, "done" after it ("twice"
                    \* after remove_numbering has run on its own result)
    ret,            \* what the call returned (None before, or if it raised)
    exc,            \* the exception that left the call, or NoExc
    tmpfiles,       \* the temporary files that exist on disk
    created,        \* the temporary files the call created
    extracted_data, \* st.session_state.extracted_data of the vision app
    calls,          \* the extractors and recognition requests called so far
    preprocessed,   \* what the calls of preprocess_image on arg.image returned
    requests,       \* the images sent to client.chat.completions.create
    configs,        \* the config of each call of pytesseract.image_to_string
    session_state,  \* st.session_state of the flashcard app and of the OCR app
    displayed       \* what the last run of the app displayed

vars == <<op, arg, pc, ret, exc, tmpfiles, created, extracted_data, calls,
          preprocessed, requests, configs, session_state, displayed>>

\* The state of the Streamlit apps of flashcard.py and processors.py.
app_vars == <<session_state, displayed>>

(***************************************************************************)
(* Python str and list primitives.                                         *)
(***************************************************************************)
NoExc == ""
None == "<None>"

Ok(v) == [exc |-> NoExc, val |-> v]
Raise(e) == [exc |-> e, val |-> None]

\* str.strip() strips the characters for which str.isspace() holds.
Whitespace == {" ", "\t", "\n", "\r"}
\* \d of the re module, restricted to the ASCII digits.
Digits == {"0", "1", "2", "3", "4", "5", "6", "7", "8", "9"}

RECURSIVE lstrip(_)
lstrip(s) ==
    IF Len(s) > 0 /\ Head(s) \in Whitespace THEN lstrip(Tail(s)) ELSE s

RECURSIVE rstrip(_)
rstrip(s) ==
    IF Len(s) > 0 /\ s[Len(s)] \in Whitespace
    THEN rstrip(SubSeq(s, 1, Len(s) - 1))
    ELSE s

strip(s) == rstrip(lstrip(s))

\* sep.join(items)
RECURSIVE join(_, _)
join(sep, items) ==
    IF Len(items) = 0 THEN <<>>
    ELSE IF Len(items) = 1 THEN items[1]
    ELSE items[1] \o sep \o join(sep, Tail(items))

\* str(n) for n >= 0
DigitOf == [d \in 0..9 |-> CASE d = 0 -> "0" [] d = 1 -> "1" [] d = 2 -> "2"
                             [] d = 3 -> "3" [] d = 4 -> "4" [] d = 5 -> "5"
                             [] d = 6 -> "6" [] d = 7 -> "7" [] d = 8 -> "8"
                             [] OTHER -> "9"]

RECURSIVE str(_)
str(n) ==
    IF n < 10 THEN <<DigitOf[n]>>
    ELSE str(n \div 10) \o <<DigitOf[n % 10]>>

\* [f(x) for x in xs]
RECURSIVE concat(_)
concat(xss) == IF Len(xss) = 0 THEN <<>> ELSE Head(xss) \o concat(Tail(xss))

\* All sequences over S of length 0..n.
SeqsUpTo(S, n) == UNION {[1..k -> S] : k \in 0..n}

(***************************************************************************)
(* The inputs of DocumentProcessor (src/processors.py).                    *)
(*                                                                         *)
(* What the external libraries answer is part of the input: an image says  *)
(* whether PIL can open it, whether OpenCV can preprocess it and what      *)
(* Tesseract answers on it; a container says whether its library can       *)
(* parse it.                                                               *)
(***************************************************************************)
\* The line of the numbering scenario, as any recognizer may read it.
NumberedLine == <<"1", ".", " ", "Mitochondria produce ATP">>

\* What pytesseract.image_to_string answers: a text, or it raises.
OcrTexts == {<<>>, <<" ">>, NumberedLine \o <<"\n">>}
OcrAnswers == {Raise("TesseractError")} \cup {Ok(t) : t \in OcrTexts}

\* A PIL image: pre says whether preprocess_image succeeds on it.
OcrImages == [pre : BOOLEAN, ocr : OcrAnswers]

\* An uploaded image file: PIL may fail to open it.
BrokenImage == [pre |-> FALSE, ocr |-> Raise("TesseractError")]

OcrImageFiles ==
    {[kind |-> "image", openable |-> FALSE, image |-> BrokenImage]}
    \cup {[kind |-> "image", openable |-> TRUE, image |-> i] : i \in OcrImages}

\* An uploaded PDF: pdf2image may fail to rasterize it; else one image a page.
OcrPdfFiles ==
    {[kind |-> "pdf", readable |-> FALSE, pages |-> <<>>]}
    \cup {[kind |-> "pdf", readable |-> TRUE, pages |-> p] :
            p \in SeqsUpTo(OcrImages, MaxPages)}

(***************************************************************************)
(* DocumentProcessor (src/processors.py).                                  *)
(***************************************************************************)
\* The Tesseract configuration of extract_text_from_image.
custom_config == "--oem 3 --psm 6"

preprocess_image(image) ==
    IF image.pre THEN Ok(image) ELSE Raise("cv2.error")

\* pytesseract.image_to_string(image, config=...)
image_to_string(image) == image.ocr

extract_text_from_image(image, preprocess) ==
    LET pre == IF preprocess THEN preprocess_image(image) ELSE Ok(image)
        text == IF pre.exc # NoExc THEN pre ELSE image_to_string(pre.val)
    IN  IF text.exc # NoExc
        THEN <<"Error extracting text from image: ", text.exc>>
        ELSE strip(text.val)

\* The loop of extract_text_from_pdf over images[i..], i counted from 1.
RECURSIVE pdf_page_loop(_, _, _, _)
pdf_page_loop(images, i, use_ocr, extracted_text) ==
    IF i > Len(images) THEN Ok(extracted_text)
    ELSE LET page == IF use_ocr
                     THEN Ok(extract_text_from_image(images[i], TRUE))
                     ELSE image_to_string(images[i])
         IN  IF page.exc # NoExc THEN page
             ELSE pdf_page_loop(images, i + 1, use_ocr,
                     IF Len(strip(page.val)) > 0
                     THEN Append(extracted_text,
                                 <<"--- Page ">> \o str(i) \o <<" ---", "\n">>
                                 \o page.val \o <<"\n">>)
                     ELSE extracted_text)

\* pdf2image.convert_from_path(tmp_path, dpi=300)
convert_from_path(pdf) ==
    IF pdf.readable THEN Ok(pdf.pages) ELSE Raise("PDFPageCountError")

\* Returns the text and whether the temporary copy of the PDF was unlinked.
extract_text_from_pdf(pdf_file, use_ocr) ==
    LET images == convert_from_path(pdf_file)
        pages == IF images.exc # NoExc THEN images
                 ELSE pdf_page_loop(images.val, 1, use_ocr, <<>>)
    IN  IF pages.exc # NoExc
        THEN [text |-> <<"Error extracting text from PDF: ", pages.exc>>,
              unlinked |-> FALSE]
        ELSE [text |-> join(<<"\n">>, pages.val), unlinked |-> TRUE]

(***************************************************************************)
(* DOCX and PPTX documents, as python-docx and python-pptx expose them.    *)
(***************************************************************************)
\* What client.chat.completions.create answers on an image: the content of
\* the first choice, or it raises.
VisionAnswers ==
    {Raise("APIError"), Ok(<<>>), Ok(<<"x">>), Ok(NumberedLine)}

\* An embedded image: the format of its bytes, whether they decode (PIL opens
\* them and saves them as PNG), and what the remote recognizer answers on it.
CorruptImage ==
    [format |-> "JPEG", decodable |-> FALSE, vision |-> Raise("APIError")]
GoodImage == [format |-> "JPEG", decodable |-> TRUE, vision |-> Ok(NumberedLine)]
UnansweredImage ==
    [format |-> "PNG", decodable |-> TRUE, vision |-> Raise("APIError")]
EmbeddedImages == {CorruptImage, GoodImage, UnansweredImage}

\* A table is its rows, a row its cells' texts.
Table1 == << << <<"a">>, <<"b">> >> >>
Table2 == << << <<>> >>, << <<"c">>, <<>> >>, << <<>>, <<>> >> >>

\* A block element of a DOCX body: a paragraph (CT_P) with its text and the
\* images of its runs that hold an a:blip, or a table (CT_Tbl).
Para(text, images) ==
    [kind |-> "CT_P", text |-> text, images |-> images, rows |-> <<>>]
Tbl(rows) ==
    [kind |-> "CT_Tbl", text |-> <<>>, images |-> <<>>, rows |-> rows]

DocxElements ==
    {Para(<<>>, <<>>), Para(<<" ">>, <<>>),
     Para(<<"Intro">>, <<>>), Para(<<"Conclusion">>, <<>>),
     Para(NumberedLine, <<>>),
     Para(<<>>, <<CorruptImage>>), Para(<<>>, <<GoodImage>>),
     Para(<<>>, <<UnansweredImage>>),
     Tbl(Table1), Tbl(Table2)}

DocxFiles ==
    {[kind |-> "docx", readable |-> FALSE, body |-> <<>>]}
    \cup {[kind |-> "docx", readable |-> TRUE, body |-> b] :
            b \in SeqsUpTo(DocxElements, MaxBody)}

\* A shape of a slide.  has_text is hasattr(shape, "text"): true of
\* autoshapes and placeholders, false of pictures and graphic frames.
PICTURE == 13
TextShape(text) ==
    [has_text |-> TRUE, text |-> text, has_table |-> FALSE, rows |-> <<>>,
     shape_type |-> 14, image |-> CorruptImage]
TableShape(rows) ==
    [has_text |-> FALSE, text |-> <<>>, has_table |-> TRUE, rows |-> rows,
     shape_type |-> 19, image |-> CorruptImage]
PictureShape(image) ==
    [has_text |-> FALSE, text |-> <<>>, has_table |-> FALSE, rows |-> <<>>,
     shape_type |-> PICTURE, image |-> image]

Slides ==
    {<<>>,
     <<TextShape(<<>>)>>,
     <<TextShape(<<"Title">>)>>,
     <<TextShape(<<"Title">>), TextShape(<<" ">>), TextShape(<<"Body">>)>>,
     <<TextShape(NumberedLine), TableShape(Table1)>>,
     <<PictureShape(GoodImage)>>,
     <<PictureShape(CorruptImage), TextShape(<<"Caption">>)>>,
     <<TableShape(Table2)>>,
     <<PictureShape(UnansweredImage), PictureShape(GoodImage)>>}

PptxFiles ==
    {[kind |-> "pptx", readable |-> FALSE, slides |-> <<>>]}
    \cup {[kind |-> "pptx", readable |-> TRUE, slides |-> s] :
            s \in SeqsUpTo(Slides, MaxSlides)}

\* A file of a type no extractor knows.
OtherFiles == {[kind |-> "other"]}

\* docx.Document(f)
Document(docx_file) ==
    IF docx_file.readable THEN Ok(docx_file.body)
    ELSE Raise("PackageNotFoundError")

\* Presentation(f)
Presentation(pptx_file) ==
    IF pptx_file.readable THEN Ok(pptx_file.slides)
    ELSE Raise("PackageNotFoundError")

\* The paragraphs of the body taken from the last to the first.
paragraphs_reversed(body) ==
    [i \in 1..Len(SelectSeq(body, LAMBDA e : e.kind = "CT_P")) |->
        SelectSeq(body, LAMBDA e : e.kind = "CT_P")
            [Len(SelectSeq(body, LAMBDA e : e.kind = "CT_P")) + 1 - i]]

\* doc.paragraphs and doc.tables: the body's paragraphs, and its tables.
paragraphs(body) == SelectSeq(body, LAMBDA e : e.kind = "CT_P")
tables(body) == SelectSeq(body, LAMBDA e : e.kind = "CT_Tbl")

\* The rows of a table taken from the last to the first.
row_lines_last_first(rows) ==
    LET kept == SelectSeq([r \in 1..Len(rows) |-> join(<<" ", "|", " ">>, rows[r])],
                          LAMBDA row_text : Len(strip(row_text)) > 0)
    IN  [r \in 1..Len(kept) |-> kept[Len(kept) + 1 - r]]

\* ' | '.join([cell.text for cell in row.cells]), kept if not blank.
row_lines(rows) ==
    SelectSeq([r \in 1..Len(rows) |-> join(<<" ", "|", " ">>, rows[r])],
              LAMBDA row_text : Len(strip(row_text)) > 0)

\* extract_text_from_docx with its two loops exchanged: the rows of the
\* tables first, the paragraphs after them.
extract_text_from_docx_tables_first(docx_file) ==
    LET doc == Document(docx_file)
        paras == paragraphs(doc.val)
        tbls == tables(doc.val)
        para_lines ==
            SelectSeq([i \in 1..Len(paras) |-> paras[i].text],
                      LAMBDA text : Len(strip(text)) > 0)
        table_lines == concat([i \in 1..Len(tbls) |-> row_lines(tbls[i].rows)])
    IN  IF doc.exc # NoExc
        THEN <<"Error extracting text from DOCX: ", doc.exc>>
        ELSE join(<<"\n">>, table_lines \o para_lines)

extract_text_from_docx(docx_file) ==
    LET doc == Document(docx_file)
        paras == paragraphs(doc.val)
        tbls == tables(doc.val)
        para_lines ==
            SelectSeq([i \in 1..Len(paras) |-> paras[i].text],
                      LAMBDA text : Len(strip(text)) > 0)
        table_lines == concat([i \in 1..Len(tbls) |-> row_lines(tbls[i].rows)])
    IN  IF doc.exc # NoExc
        THEN <<"Error extracting text from DOCX: ", doc.exc>>
        ELSE join(<<"\n">>, para_lines \o table_lines)

\* The lines one shape adds to slide_text.
shape_lines(shape) ==
    (IF shape.has_text /\ Len(strip(shape.text)) > 0
     THEN <<shape.text>> ELSE <<>>)
    \o (IF shape.has_table THEN row_lines(shape.rows) ELSE <<>>)

\* slide_text of slide i (counted from 1): the header, then the shapes' lines.
slide_text(slide, i) ==
    << <<"--- Slide ">> \o str(i) \o <<" ---">> >>
    \o concat([k \in 1..Len(slide) |-> shape_lines(slide[k])])

extract_text_from_pptx(pptx_file) ==
    LET prs == Presentation(pptx_file)
        texts == [i \in 1..Len(prs.val) |-> slide_text(prs.val[i], i)]
        text_content ==
            [i \in 1..Len(SelectSeq(texts, LAMBDA t : Len(t) > 1)) |->
                join(<<"\n">>, SelectSeq(texts, LAMBDA t : Len(t) > 1)[i])]
    IN  IF prs.exc # NoExc
        THEN <<"Error extracting text from PPTX: ", prs.exc>>
        ELSE join(<<"\n", "\n">>, text_content)

\* Image.open(uploaded_file)
Image_open(file) ==
    IF file.openable THEN Ok(file.image) ELSE Raise("UnidentifiedImageError")

\* The else branch of process_file.
unsupported_file_format == <<"Unsupported file format">>

\* tmp says what became of the temporary file of the call, if it made one.
process_file(uploaded_file, file_type, use_ocr) ==
    IF file_type \in {"jpg", "jpeg", "png", "bmp", "tiff", "gif"}
    THEN LET image == Image_open(uploaded_file)
         IN  IF image.exc # NoExc
             THEN [exc |-> image.exc, val |-> None, tmp |-> "none"]
             ELSE [exc |-> NoExc,
                   val |-> extract_text_from_image(image.val, use_ocr),
                   tmp |-> "none"]
    ELSE IF file_type = "pdf"
    THEN LET r == extract_text_from_pdf(uploaded_file, use_ocr)
         IN  [exc |-> NoExc, val |-> r.text,
              tmp |-> IF r.unlinked THEN "unlinked" ELSE "kept"]
    ELSE IF file_type = "docx"
    THEN [exc |-> NoExc, val |-> extract_text_from_docx(uploaded_file),
          tmp |-> "none"]
    ELSE IF file_type = "pptx"
    THEN [exc |-> NoExc, val |-> extract_text_from_pptx(uploaded_file),
          tmp |-> "none"]
    ELSE [exc |-> NoExc, val |-> unsupported_file_format, tmp |-> "none"]

(***************************************************************************)
(* The inputs of DocumentExtractor (src/processorsvision.py).              *)
(***************************************************************************)
\* What page.extract_text() of PyPDF2 answers on a page.
LayerAnswers ==
    {Raise("PdfReadError"), Ok(<<>>), Ok(<<"a">>), Ok(NumberedLine)}

\* A PDF on disk: PyPDF2 may fail to read the container.
VisionPdfFiles ==
    {[kind |-> "pdf", readable |-> FALSE, pages |-> <<>>]}
    \cup {[kind |-> "pdf", readable |-> TRUE, pages |-> p] :
            p \in SeqsUpTo(LayerAnswers, MaxPages)}

\* An image on disk: the format of its bytes, and what the remote recognizer
\* answers on it.
ImageFormats == {"PNG", "JPEG", "BMP", "TIFF", "WEBP", "GIF"}

VisionImageFiles == [kind : {"image"}, format : ImageFormats, vision : VisionAnswers]

(***************************************************************************)
(* DocumentExtractor (src/processorsvision.py).                            *)
(***************************************************************************)
\* text.split('\n')
RECURSIVE split_lines(_, _)
split_lines(text, line) ==
    IF Len(text) = 0 THEN <<line>>
    ELSE IF Head(text) = "\n" THEN <<line>> \o split_lines(Tail(text), <<>>)
    ELSE split_lines(Tail(text), Append(line, Head(text)))

\* The length of the longest prefix of s made of digits: what \d+ takes.
RECURSIVE digit_run(_)
digit_run(s) ==
    IF Len(s) > 0 /\ Head(s) \in Digits THEN 1 + digit_run(Tail(s)) ELSE 0

\* re.sub(r'^\s*\d+[\.\:\)]\s*', '', line)
sub_numbering(line) ==
    LET s == lstrip(line)
        d == digit_run(s)
    IN  IF d >= 1 /\ Len(s) > d /\ s[d + 1] \in {".", ":", ")"}
        THEN lstrip(SubSeq(s, d + 2, Len(s)))
        ELSE line

\* The second substitution left out.
sub_spaced_colon_skipped(line) == line

\* re.sub(r'^\s*\d+\s*:\s*', '', cleaned)
sub_spaced_colon(line) ==
    LET s == lstrip(line)
        d == digit_run(s)
        t == lstrip(SubSeq(s, d + 1, Len(s)))
    IN  IF d >= 1 /\ Len(t) > 0 /\ Head(t) = ":"
        THEN lstrip(Tail(t))
        ELSE line

\* The characters of the texts handed to remove_numbering: a digit, the
\* three marks of the first pattern, a blank, a line break and a letter.
TextCharacters == {"3", ".", ":", ")", " ", "\n", "x"}
RecognizedTexts == SeqsUpTo(TextCharacters, MaxText)

\* remove_numbering leaving out the lines it has emptied.
remove_numbering_dropping_emptied(text) ==
    IF Len(text) = 0 THEN text
    ELSE LET lines == split_lines(text, <<>>)
             cleaned_lines ==
                 SelectSeq([i \in 1..Len(lines) |->
                               sub_spaced_colon(sub_numbering(lines[i]))],
                           LAMBDA cleaned : Len(cleaned) > 0)
         IN  join(<<"\n">>, cleaned_lines)

remove_numbering(text) ==
    IF Len(text) = 0 THEN text
    ELSE LET lines == split_lines(text, <<>>)
             cleaned_lines ==
                 [i \in 1..Len(lines) |->
                     sub_spaced_colon(sub_numbering(lines[i]))]
         IN  join(<<"\n">>, cleaned_lines)

\* extract_with_vision without the call of remove_numbering.
extract_with_vision_unnormalized(response) ==
    IF response.exc # NoExc
    THEN <<"Error extracting image: ", response.exc>>
    ELSE response.val

\* response is what the chat-completion request for the image answers.
extract_with_vision(response) ==
    IF response.exc # NoExc
    THEN <<"Error extracting image: ", response.exc>>
    ELSE remove_numbering(response.val)

\* The try block of the embedded images with an except clause that records
\* the error as recognized content.
image_outcome_untagged(image) ==
    [type |-> "embedded_image",
     extracted_content |->
        IF image.decodable THEN extract_with_vision(image.vision)
        ELSE <<"UnidentifiedImageError">>]

\* The try block of the embedded images: decode, encode as PNG, recognize.
image_outcome(image) ==
    IF image.decodable
    THEN [type |-> "embedded_image",
          extracted_content |-> extract_with_vision(image.vision)]
    ELSE [type |-> "embedded_image", error |-> <<"UnidentifiedImageError">>]

\* run.part.rels.values() with "image" in rel.target_ref: the image parts of
\* the document part, one per picture, listed in document order.
image_rels(body) == concat([i \in 1..Len(body) |-> body[i].images])

\* The images one paragraph appends: for each run with a blip, one outcome
\* for each image relationship of the part.
paragraph_images(para, rels) ==
    concat([r \in 1..Len(para.images) |->
               [k \in 1..Len(rels) |-> image_outcome(rels[k])]])

extract_from_docx(docx_file) ==
    LET doc == Document(docx_file)
        body == doc.val
        paras == paragraphs(body)
        tbls == tables(body)
        text_items ==
            SelectSeq([i \in 1..Len(paras) |-> paras[i].text],
                      LAMBDA text : Len(strip(text)) > 0)
        images ==
            concat([i \in 1..Len(paras) |->
                       paragraph_images(paras[i], image_rels(body))])
    IN  IF doc.exc # NoExc THEN doc
        ELSE Ok([text |-> join(<<"\n", "\n">>, text_items),
                 tables |-> [i \in 1..Len(tbls) |-> tbls[i].rows],
                 images |-> images])

\* The loop of extract_from_pdf over pages[i..], i counted from 1; the except
\* clause encloses the whole loop.
RECURSIVE text_page_loop(_, _, _)
text_page_loop(pages, i, text_pages) ==
    IF i > Len(pages) THEN text_pages
    ELSE IF pages[i].exc # NoExc
    THEN Append(text_pages, <<"Text extraction error: ", pages[i].exc>>)
    ELSE text_page_loop(pages, i + 1,
            Append(text_pages,
                   <<"--- Page ">> \o str(i) \o <<" ---", "\n">>
                   \o pages[i].val))

\* PyPDF2.PdfReader(file)
PdfReader(pdf) ==
    IF pdf.readable THEN Ok(pdf.pages) ELSE Raise("PdfReadError")

\* extract_from_pdf with an except clause that records nothing.
extract_from_pdf_silent(pdf_file) ==
    LET pdf_reader == PdfReader(pdf_file)
        text_pages ==
            IF pdf_reader.exc # NoExc THEN <<>>
            ELSE text_page_loop(pdf_reader.val, 1, <<>>)
    IN  [text |-> join(<<"\n", "\n">>, text_pages)]

\* extract_from_pdf with the pages tagged page_num, not page_num + 1.
extract_from_pdf_zero_based(pdf_file) ==
    LET pdf_reader == PdfReader(pdf_file)
        pages == pdf_reader.val
        good == CHOOSE k \in 0..Len(pages) :
                    /\ \A j \in 1..k : pages[j].exc = NoExc
                    /\ k = Len(pages) \/ pages[k + 1].exc # NoExc
        text_pages ==
            IF pdf_reader.exc # NoExc
            THEN << <<"Text extraction error: ", pdf_reader.exc>> >>
            ELSE [i \in 1..good |->
                     <<"--- Page ">> \o str(i - 1) \o <<" ---", "\n">>
                     \o pages[i].val]
                 \o (IF good < Len(pages)
                     THEN << <<"Text extraction error: ", pages[good + 1].exc>> >>
                     ELSE <<>>)
    IN  [text |-> join(<<"\n", "\n">>, text_pages)]

extract_from_pdf(pdf_file) ==
    LET pdf_reader == PdfReader(pdf_file)
        text_pages ==
            IF pdf_reader.exc # NoExc
            THEN << <<"Text extraction error: ", pdf_reader.exc>> >>
            ELSE text_page_loop(pdf_reader.val, 1, <<>>)
    IN  [text |-> join(<<"\n", "\n">>, text_pages)]

\* slide_content with "slide_number" set to slide_num, not slide_num + 1.
slide_content_zero_based(slide, n) ==
    LET pictures == SelectSeq(slide, LAMBDA sh : sh.shape_type = PICTURE)
        tbls == SelectSeq(slide, LAMBDA sh : sh.has_table)
        text_items ==
            SelectSeq(slide,
                      LAMBDA sh : sh.has_text /\ Len(strip(sh.text)) > 0)
    IN  [slide_number |-> n - 1,
         text |-> join(<<"\n">>,
                       [k \in 1..Len(text_items) |-> text_items[k].text]),
         tables |-> [k \in 1..Len(tbls) |-> tbls[k].rows],
         images |-> [k \in 1..Len(pictures) |->
                        image_outcome(pictures[k].image)]]

\* slide_content of slide number n.
slide_content(slide, n) ==
    LET pictures == SelectSeq(slide, LAMBDA sh : sh.shape_type = PICTURE)
        tbls == SelectSeq(slide, LAMBDA sh : sh.has_table)
        text_items ==
            SelectSeq(slide,
                      LAMBDA sh : sh.has_text /\ Len(strip(sh.text)) > 0)
    IN  [slide_number |-> n,
         text |-> join(<<"\n">>,
                       [k \in 1..Len(text_items) |-> text_items[k].text]),
         tables |-> [k \in 1..Len(tbls) |-> tbls[k].rows],
         images |-> [k \in 1..Len(pictures) |->
                        image_outcome(pictures[k].image)]]

extract_from_pptx(pptx_file) ==
    LET prs == Presentation(pptx_file)
    IN  IF prs.exc # NoExc THEN prs
        ELSE Ok([slides |-> [i \in 1..Len(prs.val) |->
                                slide_content(prs.val[i], i)]])

extract_from_image(image_file) ==
    [file_type |-> "image",
     extracted_content |-> extract_with_vision(image_file.vision)]

\* The suffix taken as it is written, without str.lower().
suffix_as_written(suffix) == suffix

\* str.lower() on the suffixes of the model.
lower(suffix) == IF suffix = ".PDF" THEN ".pdf" ELSE suffix

\* Path(file_path).name
path_name(file_path) ==
    IF file_path.suffix = "" THEN <<file_path.stem>>
    ELSE <<file_path.stem, file_path.suffix>>

\* The else branch of extract_from_file answering as an extraction that
\* found nothing.
unsupported_as_empty_content(name, extension) ==
    Ok([file_name |-> name, file_type |-> extension,
        content |-> [text |-> <<>>]])

\* The else branch of extract_from_file.
unsupported_file_type(name, extension) ==
    Ok([file_name |-> name,
        error |-> <<"Unsupported file type: ", extension>>])

\* file_path is a path and the file found there.
extract_from_file(file_path) ==
    LET extension == lower(file_path.suffix)
        name == path_name(file_path)
    IN  IF extension = ".docx"
        THEN LET c == extract_from_docx(file_path.file)
             IN  IF c.exc # NoExc THEN c
                 ELSE Ok([file_name |-> name, file_type |-> "docx",
                          content |-> c.val])
        ELSE IF extension = ".pdf"
        THEN Ok([file_name |-> name, file_type |-> "pdf",
                 content |-> extract_from_pdf(file_path.file)])
        ELSE IF extension \in {".ppt", ".pptx"}
        THEN LET c == extract_from_pptx(file_path.file)
             IN  IF c.exc # NoExc THEN c
                 ELSE Ok([file_name |-> name, file_type |-> "pptx",
                          content |-> c.val])
        ELSE IF extension \in {".png", ".jpg", ".jpeg", ".bmp", ".tiff", ".webp"}
        THEN Ok([file_name |-> name, file_type |-> "image",
                 content |-> extract_from_image(file_path.file)])
        ELSE unsupported_file_type(name, extension)

(***************************************************************************)
(* preprocess_image on the pixels of an image (src/processors.py, lines    *)
(* 20 to 36).  An image is its mode and its pixels, row after row: a pixel *)
(* of mode "RGB" is <<r, g, b>>, a pixel of mode "L" is <<l>>.  Elsewhere  *)
(* in the model an image only says, by its field pre, whether this         *)
(* pipeline raises on it.                                                  *)
(***************************************************************************)
Colours == {<<0, 0, 0>>, <<255, 255, 255>>, <<255, 0, 0>>, <<90, 90, 90>>}

PixelImages ==
    [mode : {"RGB"}, pixels : SeqsUpTo(Colours, MaxPixels)]
    \cup [mode : {"L"}, pixels : {<<>>, << <<90>> >>}]

\* cv2.cvtColor(img_array, cv2.COLOR_RGB2GRAY): 8-bit fixed point weights,
\* and an error for an array that is empty or has not three channels.
cvtColor(image) ==
    IF image.mode # "RGB" \/ Len(image.pixels) = 0 THEN Raise("cv2.error")
    ELSE Ok([i \in 1..Len(image.pixels) |->
                (4899 * image.pixels[i][1] + 9617 * image.pixels[i][2]
                 + 1868 * image.pixels[i][3] + 8192) \div 16384])

\* The threshold cv2.THRESH_OTSU selects: the first level that maximizes
\* the between-class variance n1 * n2 * (mean1 - mean2)^2, and 0 when no
\* level splits the pixels.  The variance of level t is Num(t) / Den(t).
otsu(gray) ==
    LET levels == {gray[i] : i \in 1..Len(gray)}
        Low(t) == {i \in 1..Len(gray) : gray[i] <= t}
        High(t) == {i \in 1..Len(gray) : gray[i] > t}
        Sum[S \in SUBSET (1..Len(gray))] ==
            IF S = {} THEN 0
            ELSE LET i == CHOOSE i \in S : TRUE IN gray[i] + Sum[S \ {i}]
        Cross(t) == Sum[Low(t)] * Cardinality(High(t))
                    - Sum[High(t)] * Cardinality(Low(t))
        Num(t) == Cross(t) * Cross(t)
        Den(t) == Cardinality(Low(t)) * Cardinality(High(t))
        splits == {t \in levels : Den(t) > 0}
        best == {t \in splits :
                   \A u \in splits : Num(t) * Den(u) >= Num(u) * Den(t)}
    IN  IF best = {} THEN 0
        ELSE CHOOSE t \in best : \A u \in best : t <= u

\* cv2.threshold(gray, 0, 255, cv2.THRESH_BINARY + cv2.THRESH_OTSU)[1]
threshold(gray) ==
    LET thresh == otsu(gray)
    IN  [i \in 1..Len(gray) |-> IF gray[i] > thresh THEN 255 ELSE 0]

\* cv2.fastNlMeansDenoising(binary, None, 10, 7, 21): every pixel becomes
\* the weighted mean of the pixels of its search window.  With h = 10 the
\* weight of a pixel whose patch differs by a full black/white step is 0,
\* so that on a binary image the mean is over the pixels of equal value.
fastNlMeansDenoising(binary) ==
    [i \in 1..Len(binary) |->
        LET alike == {j \in 1..Len(binary) : binary[j] = binary[i]}
        IN  (binary[i] * Cardinality(alike)) \div Cardinality(alike)]

\* Image.fromarray(denoised): an image of mode "L".
fromarray(array) == [mode |-> "L", pixels |-> [i \in 1..Len(array) |-> <<array[i]>>]]

\* preprocess_image with a module-level flag that every call flips and
\* that exchanges black and white.
preprocess_image_pixels_alternating(image) ==
    LET gray == cvtColor(image)
        binary == threshold(gray.val)
    IN  IF gray.exc # NoExc THEN gray
        ELSE Ok(fromarray(fastNlMeansDenoising(
                    IF Len(calls) % 2 = 0 THEN binary
                    ELSE [i \in 1..Len(binary) |-> 255 - binary[i]])))

preprocess_image_pixels(image) ==
    LET gray == cvtColor(image)
    IN  IF gray.exc # NoExc THEN gray
        ELSE Ok(fromarray(fastNlMeansDenoising(threshold(gray.val))))

(***************************************************************************)
(* The calls an entry point makes, in the order it makes them: the         *)
(* per-format extractors it routes to, and the recognition requests        *)
(* (pytesseract.image_to_string, client.chat.completions.create) made on   *)
(* the way.  No call is made twice for the same unit: no except clause     *)
(* holds a loop or a second attempt.                                       *)
(***************************************************************************)
\* extract_text_from_image with an except clause that asks the recognizer a
\* second time.
extract_text_from_image_calls_retrying(image, preprocess) ==
    IF preprocess /\ preprocess_image(image).exc # NoExc THEN <<>>
    ELSE IF image_to_string(image).exc # NoExc
    THEN <<"image_to_string", "image_to_string">>
    ELSE <<"image_to_string">>

\* extract_text_from_image: image_to_string is reached unless the
\* preprocessing raised before it.
extract_text_from_image_calls(image, preprocess) ==
    IF preprocess /\ preprocess_image(image).exc # NoExc THEN <<>>
    ELSE <<"image_to_string">>

\* The loop of extract_text_from_pdf: with use_ocr False the first page whose
\* recognition raises ends the loop.
pdf_page_calls(images, use_ocr) ==
    LET raising == {i \in 1..Len(images) : image_to_string(images[i]).exc # NoExc}
        last == IF use_ocr \/ raising = {} THEN Len(images)
                ELSE CHOOSE i \in raising : \A j \in raising : i <= j
    IN  concat([i \in 1..last |->
                   IF use_ocr THEN extract_text_from_image_calls(images[i], TRUE)
                   ELSE <<"image_to_string">>])

\* process_file opening the upload as an image before it looks at the type.
process_file_calls_opening_first(uploaded_file, file_type, use_ocr) ==
    <<"extract_text_from_image", "image_to_string">>

process_file_calls(uploaded_file, file_type, use_ocr) ==
    IF file_type \in {"jpg", "jpeg", "png", "bmp", "tiff", "gif"}
    THEN LET image == Image_open(uploaded_file)
         IN  IF image.exc # NoExc THEN <<>>
             ELSE <<"extract_text_from_image">>
                  \o extract_text_from_image_calls(image.val, use_ocr)
    ELSE IF file_type = "pdf"
    THEN LET images == convert_from_path(uploaded_file)
         IN  <<"extract_text_from_pdf">>
             \o (IF images.exc # NoExc THEN <<>>
                 ELSE pdf_page_calls(images.val, use_ocr))
    ELSE IF file_type = "docx" THEN <<"extract_text_from_docx">>
    ELSE IF file_type = "pptx" THEN <<"extract_text_from_pptx">>
    ELSE <<>>

\* The try block of an embedded image: the request is made once the image
\* has been decoded and encoded.
image_outcome_calls(image) ==
    IF image.decodable THEN <<"chat.completions.create">> ELSE <<>>

extract_from_docx_calls(docx_file) ==
    LET doc == Document(docx_file)
        paras == paragraphs(doc.val)
        rels == image_rels(doc.val)
    IN  <<"extract_from_docx">>
        \o (IF doc.exc # NoExc THEN <<>>
            ELSE concat([i \in 1..Len(paras) |->
                    concat([r \in 1..Len(paras[i].images) |->
                        concat([k \in 1..Len(rels) |->
                                   image_outcome_calls(rels[k])])])]))

extract_from_pptx_calls(pptx_file) ==
    LET prs == Presentation(pptx_file)
        pictures(slide) == SelectSeq(slide, LAMBDA sh : sh.shape_type = PICTURE)
    IN  <<"extract_from_pptx">>
        \o (IF prs.exc # NoExc THEN <<>>
            ELSE concat([i \in 1..Len(prs.val) |->
                    concat([k \in 1..Len(pictures(prs.val[i])) |->
                        image_outcome_calls(pictures(prs.val[i])[k].image)])]))

\* st.write(f"Processing: {file_path.name}") comes before the branches.
extract_from_file_calls(file_path) ==
    LET extension == lower(file_path.suffix)
    IN  <<"st.write">>
        \o (IF extension = ".docx" THEN extract_from_docx_calls(file_path.file)
            ELSE IF extension = ".pdf" THEN <<"extract_from_pdf">>
            ELSE IF extension \in {".ppt", ".pptx"}
            THEN extract_from_pptx_calls(file_path.file)
            ELSE IF extension \in {".png", ".jpg", ".jpeg", ".bmp", ".tiff",
                                   ".webp"}
            THEN <<"extract_from_image", "chat.completions.create">>
            ELSE <<>>)

(***************************************************************************)
(* The config argument of each call of pytesseract.image_to_string, in the *)
(* order of the calls.                                                     *)
(***************************************************************************)
\* The default of the parameter config of pytesseract.image_to_string.
default_config == ""

\* extract_text_from_image passes config=custom_config.
extract_text_from_image_configs(image, preprocess) ==
    IF preprocess /\ preprocess_image(image).exc # NoExc THEN <<>>
    ELSE <<custom_config>>

\* The loop of extract_text_from_pdf: with use_ocr False the call is
\* pytesseract.image_to_string(image), without a config.
pdf_page_configs(images, use_ocr) ==
    LET raising == {i \in 1..Len(images) : image_to_string(images[i]).exc # NoExc}
        last == IF use_ocr \/ raising = {} THEN Len(images)
                ELSE CHOOSE i \in raising : \A j \in raising : i <= j
    IN  concat([i \in 1..last |->
                   IF use_ocr THEN extract_text_from_image_configs(images[i], TRUE)
                   ELSE <<default_config>>])

process_file_configs(uploaded_file, file_type, use_ocr) ==
    IF file_type \in {"jpg", "jpeg", "png", "bmp", "tiff", "gif"}
    THEN LET image == Image_open(uploaded_file)
         IN  IF image.exc # NoExc THEN <<>>
             ELSE extract_text_from_image_configs(image.val, use_ocr)
    ELSE IF file_type = "pdf"
    THEN LET images == convert_from_path(uploaded_file)
         IN  IF images.exc # NoExc THEN <<>>
             ELSE pdf_page_configs(images.val, use_ocr)
    ELSE <<>>

(***************************************************************************)
(* The images sent to the remote recognizer, in the order they are sent.   *)
(* A request is the image_url of its message: the media type the URL       *)
(* declares and the base64 text after it.  Base64 text is the bytes it     *)
(* encodes, under the tag "base64"; bytes are the image format they hold.  *)
(***************************************************************************)
\* base64.b64encode(data).decode('utf-8')
b64encode(data) == [encoding |-> "base64", data |-> data]

\* image_file.read() of the file opened "rb": the bytes as they are on disk.
encode_image_to_base64(image_path) ==
    b64encode([format |-> image_path.format])

\* image.save(buffered, format="PNG"): the bytes are PNG whatever the image
\* was decoded from.
image_to_base64(image) == b64encode([format |-> "PNG"])

\* The image_url of the message of extract_with_vision.
image_url(image_base64) ==
    [media_type |-> "image/png", image_base64 |-> image_base64]

\* The try block of an embedded image: Image.open, image_to_base64, request.
image_outcome_requests(image) ==
    IF image.decodable THEN <<image_url(image_to_base64(image))>> ELSE <<>>

extract_from_docx_requests(docx_file) ==
    LET doc == Document(docx_file)
        paras == paragraphs(doc.val)
        rels == image_rels(doc.val)
    IN  IF doc.exc # NoExc THEN <<>>
        ELSE concat([i \in 1..Len(paras) |->
                concat([r \in 1..Len(paras[i].images) |->
                    concat([k \in 1..Len(rels) |->
                               image_outcome_requests(rels[k])])])])

extract_from_pptx_requests(pptx_file) ==
    LET prs == Presentation(pptx_file)
        pictures(slide) == SelectSeq(slide, LAMBDA sh : sh.shape_type = PICTURE)
    IN  IF prs.exc # NoExc THEN <<>>
        ELSE concat([i \in 1..Len(prs.val) |->
                concat([k \in 1..Len(pictures(prs.val[i])) |->
                    image_outcome_requests(pictures(prs.val[i])[k].image)])])

\* extract_from_image: extract_with_vision(image_path=file_path) encodes the
\* file with encode_image_to_base64.
extract_from_image_requests(image_file) ==
    <<image_url(encode_image_to_base64(image_file))>>

extract_from_file_requests(file_path) ==
    LET extension == lower(file_path.suffix)
    IN  IF extension = ".docx" THEN extract_from_docx_requests(file_path.file)
        ELSE IF extension \in {".ppt", ".pptx"}
        THEN extract_from_pptx_requests(file_path.file)
        ELSE IF extension \in {".png", ".jpg", ".jpeg", ".bmp", ".tiff",
                               ".webp"}
        THEN extract_from_image_requests(file_path.file)
        ELSE <<>>

(***************************************************************************)
(* The state machine.  A behaviour is one request: Init draws the entry    *)
(* point and its input, and the action of the entry point runs it to       *)
(* completion.                                                             *)
(***************************************************************************)

\* The extensions a caller may hand to process_file, and the files that
\* carry them.
FileTypes ==
    {"jpg", "jpeg", "png", "bmp", "tiff", "gif", "webp",
     "pdf", "docx", "pptx", "ppt", "xyz"}

UploadsOfType(file_type) ==
    IF file_type \in {"jpg", "jpeg", "png", "bmp", "tiff", "gif", "webp"}
    THEN OcrImageFiles
    ELSE IF file_type = "pdf" THEN OcrPdfFiles
    ELSE IF file_type = "docx" THEN DocxFiles
    ELSE IF file_type \in {"pptx", "ppt"} THEN PptxFiles
    ELSE OtherFiles

\* The suffixes of the paths handed to extract_from_file.
Suffixes ==
    {".docx", ".pdf", ".PDF", ".pptx", ".ppt", ".png", ".jpg", ".jpeg",
     ".bmp", ".tiff", ".webp", ".gif", ".xyz", ""}

\* The format of the bytes of an image file named with the suffix.
FormatOfSuffix(suffix) ==
    CASE suffix = ".png" -> "PNG"
      [] suffix \in {".jpg", ".jpeg"} -> "JPEG"
      [] suffix = ".bmp" -> "BMP"
      [] suffix = ".tiff" -> "TIFF"
      [] suffix = ".webp" -> "WEBP"
      [] suffix = ".gif" -> "GIF"

FilesOfSuffix(suffix) ==
    IF suffix \in {".png", ".jpg", ".jpeg", ".bmp", ".tiff", ".webp", ".gif"}
    THEN {f \in VisionImageFiles : f.format = FormatOfSuffix(suffix)}
    ELSE IF suffix \in {".pdf", ".PDF"} THEN VisionPdfFiles
    ELSE IF suffix = ".docx" THEN DocxFiles
    ELSE IF suffix \in {".pptx", ".ppt"} THEN PptxFiles
    ELSE OtherFiles

Paths(suffixes) ==
    UNION {[stem : {"notes"}, suffix : {s}, file : FilesOfSuffix(s)] :
             s \in suffixes}

\* The type list of the file uploader of the vision app.
UploaderSuffixes ==
    {".docx", ".pdf", ".pptx", ".ppt", ".png", ".jpg", ".jpeg", ".bmp",
     ".tiff", ".webp"}

Init ==
    /\ pc = "pending"
    /\ ret = None
    /\ exc = NoExc
    /\ tmpfiles = {}
    /\ created = {}
    /\ extracted_data = None
    /\ calls = <<>>
    /\ preprocessed = <<>>
    /\ requests = <<>>
    /\ configs = <<>>
    /\ session_state = None
    /\ displayed = None
    /\ \/ /\ op = "preprocess_image"
          /\ arg \in [image : PixelImages]
       \/ /\ op = "remove_numbering"
          /\ arg \in [text : RecognizedTexts]
       \/ /\ op = "process_file"
          /\ \E t \in FileTypes :
                arg \in [file_type : {t}, uploaded_file : UploadsOfType(t),
                         use_ocr : BOOLEAN]
       \/ /\ op = "extract_from_file"
          /\ arg \in [file_path : Paths(Suffixes)]
       \/ /\ op = "main"
          /\ \/ arg = [uploaded |-> FALSE]
             \/ arg \in [uploaded : {TRUE}, uploaded_file : Paths(UploaderSuffixes),
                          clicked : BOOLEAN]

\* tempfile.NamedTemporaryFile(delete=False): a name no file on disk has.
NamedTemporaryFile == CHOOSE n \in 1..(Cardinality(tmpfiles) + 1) : n \notin tmpfiles

\* DocumentProcessor.process_file(uploaded_file, file_type, use_ocr)
ProcessFile ==
    /\ pc = "pending" /\ op = "process_file"
    /\ LET r == process_file(arg.uploaded_file, arg.file_type, arg.use_ocr)
           tmp_path == NamedTemporaryFile
       IN  /\ ret' = r.val
           /\ exc' = r.exc
           /\ created' = IF r.tmp = "none" THEN {} ELSE {tmp_path}
           /\ tmpfiles' = IF r.tmp = "kept" THEN tmpfiles \cup {tmp_path}
                          ELSE tmpfiles
    /\ calls' = calls \o process_file_calls(arg.uploaded_file, arg.file_type,
                                            arg.use_ocr)
    /\ configs' = configs \o process_file_configs(arg.uploaded_file,
                                                  arg.file_type, arg.use_ocr)
    /\ pc' = "done"
    /\ UNCHANGED <<op, arg, extracted_data, preprocessed, requests>>
    /\ UNCHANGED app_vars

\* DocumentExtractor().extract_from_file(file_path)
ExtractFromFile ==
    /\ pc = "pending" /\ op = "extract_from_file"
    /\ LET r == extract_from_file(arg.file_path)
       IN  /\ ret' = r.val
           /\ exc' = r.exc
    /\ calls' = calls \o extract_from_file_calls(arg.file_path)
    /\ requests' = requests \o extract_from_file_requests(arg.file_path)
    /\ pc' = "done"
    /\ UNCHANGED <<op, arg, tmpfiles, created, extracted_data, preprocessed,
                   configs>>
    /\ UNCHANGED app_vars

\* One run of main() of the vision app: the upload is copied to a temporary
\* file which no statement removes; a click on Extract runs the extraction
\* on the copy and stores the result, under the name of the upload.
VisionMain ==
    /\ pc = "pending" /\ op = "main"
    /\ IF ~arg.uploaded
       THEN UNCHANGED <<tmpfiles, created, extracted_data, calls, requests>>
       ELSE LET tmp_path == NamedTemporaryFile
                tmp_file == [stem |-> "tmp",
                             suffix |-> arg.uploaded_file.suffix,
                             file |-> arg.uploaded_file.file]
                r == extract_from_file(tmp_file)
            IN  /\ created' = {tmp_path}
                /\ tmpfiles' = tmpfiles \cup {tmp_path}
                /\ extracted_data' =
                      IF ~arg.clicked THEN extracted_data
                      ELSE IF r.exc # NoExc THEN None
                      ELSE [r.val EXCEPT
                              !.file_name = path_name(arg.uploaded_file)]
                /\ calls' = IF arg.clicked
                            THEN calls \o extract_from_file_calls(tmp_file)
                            ELSE calls
                /\ requests' = IF arg.clicked
                               THEN requests \o extract_from_file_requests(tmp_file)
                               ELSE requests
    /\ pc' = "done"
    /\ UNCHANGED <<op, arg, ret, exc, preprocessed, configs>>
    /\ UNCHANGED app_vars

\* DocumentProcessor.preprocess_image on each image of the model.
RECURSIVE preprocess_image_on(_)
preprocess_image_on(images) ==
    IF images = {} THEN <<>>
    ELSE LET image == CHOOSE image \in images : TRUE
         IN  (image :> preprocess_image_pixels(image))
             @@ preprocess_image_on(images \ {image})

preprocess_image_of == preprocess_image_on(PixelImages)

\* DocumentProcessor.preprocess_image(image), on the image of the request.
\* The method is static and reads nothing but its argument.
PreprocessImage ==
    /\ op = "preprocess_image" /\ Len(calls) < MaxRuns
    /\ LET r == preprocess_image_of[arg.image]
       IN  /\ ret' = r.val
           /\ exc' = r.exc
           /\ preprocessed' = Append(preprocessed, r)
    /\ calls' = Append(calls, "preprocess_image")
    /\ pc' = "done"
    /\ UNCHANGED <<op, arg, tmpfiles, created, extracted_data, requests,
                   configs>>
    /\ UNCHANGED app_vars

\* DocumentProcessor.preprocess_image(other), on another image.
PreprocessOtherImage ==
    /\ op = "preprocess_image" /\ Len(calls) < MaxRuns
    /\ \E other \in PixelImages \ {arg.image} :
          LET r == preprocess_image_of[other]
          IN  /\ ret' = r.val
              /\ exc' = r.exc
    /\ calls' = Append(calls, "preprocess_image of another image")
    /\ pc' = "done"
    /\ UNCHANGED <<op, arg, tmpfiles, created, extracted_data, preprocessed,
                   requests, configs>>
    /\ UNCHANGED app_vars

\* DocumentExtractor().remove_numbering(text)
RemoveNumbering ==
    /\ pc = "pending" /\ op = "remove_numbering"
    /\ ret' = remove_numbering(arg.text)
    /\ pc' = "done"
    /\ UNCHANGED <<op, arg, exc, tmpfiles, created, extracted_data, calls,
                   preprocessed, requests, configs>>
    /\ UNCHANGED app_vars

\* DocumentExtractor().remove_numbering(ret), on what the first call returned.
RemoveNumberingAgain ==
    /\ pc = "done" /\ op = "remove_numbering"
    /\ ret' = remove_numbering(ret)
    /\ pc' = "twice"
    /\ UNCHANGED <<op, arg, exc, tmpfiles, created, extracted_data, calls,
                   preprocessed, requests, configs>>
    /\ UNCHANGED app_vars

Next ==
    \/ RemoveNumbering
    \/ RemoveNumberingAgain
    \/ ProcessFile
    \/ ExtractFromFile
    \/ VisionMain
    \/ PreprocessImage
    \/ PreprocessOtherImage

Spec == Init /\ [][Next]_vars

(***************************************************************************)
(* Reading the results back, for the properties below.                     *)
(***************************************************************************)
Done(entry) == pc = "done" /\ op = entry

DigitValue(ch) == CHOOSE d \in 0..9 : DigitOf[d] = ch

\* The number written by the digits at the head of s.
RECURSIVE NatAtHead(_, _)
NatAtHead(s, acc) ==
    IF Len(s) > 0 /\ Head(s) \in Digits
    THEN NatAtHead(Tail(s), 10 * acc + DigitValue(Head(s)))
    ELSE acc

\* The numbers of the headers ("--- Page ", "--- Slide ") of a text, in the
\* order the text lists them.
RECURSIVE HeaderNumbers(_, _)
HeaderNumbers(text, header) ==
    IF Len(text) = 0 THEN <<>>
    ELSE (IF Head(text) = header THEN <<NatAtHead(Tail(text), 0)>> ELSE <<>>)
         \o HeaderNumbers(Tail(text), header)

\* Whether needle occurs in hay as a run of consecutive tokens.
Contains(hay, needle) ==
    \E i \in 0..(Len(hay) - Len(needle)) :
        SubSeq(hay, i + 1, i + Len(needle)) = needle

\* <<1, 2, ..., n>>
UpTo(n) == [i \in 1..n |-> i]

StrictlyIncreasing(ns) == \A i \in 1..(Len(ns) - 1) : ns[i] < ns[i + 1]

\* The requests by format.
IsProcess(file_type) == Done("process_file") /\ arg.file_type = file_type
IsExtract(suffixes) ==
    Done("extract_from_file") /\ lower(arg.file_path.suffix) \in suffixes

\* The extensions section 6 of the specification lists as accepted.
SupportedExtensions ==
    {"pdf", "docx", "pptx", "ppt", "png", "jpg", "jpeg", "bmp", "tiff", "gif",
     "webp"}
SupportedSuffixes ==
    {".pdf", ".docx", ".pptx", ".ppt", ".png", ".jpg", ".jpeg", ".bmp",
     ".tiff", ".gif", ".webp"}

\* A document that holds nothing: its extraction succeeds and finds nothing.
EmptyDocx == [kind |-> "docx", readable |-> TRUE, body |-> <<>>]

(***************************************************************************)
(* C1.  An extension outside the supported set is answered, without        *)
(* raising, by a result that carries the unsupported-format marker and     *)
(* that differs from an extraction that found nothing: process_file        *)
(* returns the non-empty text "Unsupported file format", extract_from_file *)
(* a dict with the key "error" and no key "content".                       *)
(***************************************************************************)
C1_UnsupportedFormatMarked ==
    /\ (Done("process_file") /\ arg.file_type \notin SupportedExtensions)
         => /\ exc = NoExc
            /\ ret = <<"Unsupported file format">>
            /\ ret # process_file(EmptyDocx, "docx", arg.use_ocr).val
    /\ (Done("extract_from_file")
          /\ lower(arg.file_path.suffix) \notin SupportedSuffixes)
         => /\ exc = NoExc
            /\ "error" \in DOMAIN ret
            /\ ret.error = <<"Unsupported file type: ",
                             lower(arg.file_path.suffix)>>
            /\ "content" \notin DOMAIN ret
            /\ "file_type" \notin DOMAIN ret
            /\ "error" \notin DOMAIN
                  extract_from_file([arg.file_path EXCEPT
                      !.suffix = ".docx", !.file = EmptyDocx]).val

C1_Witness ==
    /\ Done("extract_from_file")
    /\ arg.file_path.suffix = ".xyz"
    /\ exc = NoExc
    /\ "error" \in DOMAIN ret

(***************************************************************************)
(* PDF extraction, read back.                                              *)
(***************************************************************************)
PageHeader(i) == <<"--- Page ">> \o str(i) \o <<" ---">>

\* The PDF of the request and its pages, when the request is a PDF whose
\* container the library reads.
OcrPdf == IsProcess("pdf") /\ arg.uploaded_file.readable
TextPdf == IsExtract({".pdf"}) /\ arg.file_path.file.readable
PdfPages == IF op = "process_file" THEN arg.uploaded_file.pages
            ELSE arg.file_path.file.pages
PdfText == IF op = "process_file" THEN ret ELSE ret.content.text

\* Page i cannot be processed: preprocessing or recognition raises on it
\* (process_file), or page.extract_text() raises (extract_from_file).
PageFails(i) ==
    IF op = "process_file"
    THEN \/ arg.use_ocr /\ ~PdfPages[i].pre
         \/ PdfPages[i].ocr.exc # NoExc
    ELSE PdfPages[i].exc # NoExc

\* The text the recognizer returns for page i, which does not fail.
PageText(i) ==
    IF op = "process_file" THEN PdfPages[i].ocr.val ELSE PdfPages[i].val

ListedPages == {HeaderNumbers(PdfText, "--- Page ")[j] :
                  j \in 1..Len(HeaderNumbers(PdfText, "--- Page "))}

ErrorAnnotations ==
    {"Error extracting text from image: ", "Text extraction error: ",
     "Error extracting text from PDF: "}

\* The first place of needle in hay (0 when it has none).
Position(hay, needle) ==
    IF Contains(hay, needle)
    THEN CHOOSE i \in 1..Len(hay) :
            /\ SubSeq(hay, i, i + Len(needle) - 1) = needle
            /\ \A j \in 1..(i - 1) : SubSeq(hay, j, j + Len(needle) - 1) # needle
    ELSE 0

OnlyPageFails(k) ==
    /\ k \in 1..Len(PdfPages)
    /\ PageFails(k)
    /\ \A i \in 1..Len(PdfPages) \ {k} :
          ~PageFails(i) /\ Len(strip(PageText(i))) > 0

C3_PageFailureIsLocal ==
    \A k \in 1..MaxPages + 1 :
        ((OcrPdf \/ TextPdf) /\ OnlyPageFails(k))
            => /\ \A i \in 1..Len(PdfPages) \ {k} :
                     Contains(PdfText,
                              PageHeader(i) \o <<"\n">> \o strip(PageText(i)))
               /\ \E e \in ErrorAnnotations :
                     /\ Contains(PdfText, <<e>>)
                     /\ \A i \in 1..(k - 1) :
                           Position(PdfText, PageHeader(i))
                             < Position(PdfText, <<e>>)
                     /\ \A i \in (k + 1)..Len(PdfPages) :
                           Position(PdfText, <<e>>)
                             < Position(PdfText, PageHeader(i))

(***************************************************************************)
(* C4, as claimed.  Once a call has finished, no temporary file it created *)
(* exists.                                                                 *)
(***************************************************************************)
C4_TemporaryFilesReleased ==
    pc = "done" => created \cap tmpfiles = {}

(***************************************************************************)
(* DOCX extraction, read back.                                             *)
(***************************************************************************)
OcrDocx == IsProcess("docx") /\ arg.uploaded_file.readable
VisionDocx == IsExtract({".docx"}) /\ arg.file_path.file.readable
DocxBody == IF op = "process_file" THEN arg.uploaded_file.body
            ELSE arg.file_path.file.body

NotBlank(text) == Len(strip(text)) > 0

\* The blocks of a body that hold something to emit, in body order.
IsParagraph(e) == e.kind = "CT_P" /\ NotBlank(e.text)
IsTable(e) == e.kind = "CT_Tbl"
BodyBlocks(body) == SelectSeq(body, LAMBDA e : IsParagraph(e) \/ IsTable(e))

\* The lines extract_text_from_docx owes to one block.
BlockLines(e) == IF e.kind = "CT_P" THEN <<e.text>> ELSE row_lines(e.rows)
LinesOf(blocks) == concat([i \in 1..Len(blocks) |-> BlockLines(blocks[i])])

\* The blocks of the result of extract_from_docx in the order the result
\* holds them: the paragraphs of "text", then the tables of "tables".
RECURSIVE SplitParagraphs(_, _)
SplitParagraphs(text, item) ==
    IF Len(text) = 0 THEN (IF Len(item) = 0 THEN <<>> ELSE <<item>>)
    ELSE IF Len(text) >= 2 /\ text[1] = "\n" /\ text[2] = "\n"
    THEN <<item>> \o SplitParagraphs(SubSeq(text, 3, Len(text)), <<>>)
    ELSE SplitParagraphs(Tail(text), Append(item, Head(text)))

ResultBlocks(content) ==
    [i \in 1..Len(SplitParagraphs(content.text, <<>>)) |->
        Para(SplitParagraphs(content.text, <<>>)[i], <<>>)]
    \o [i \in 1..Len(content.tables) |-> Tbl(content.tables[i])]

\* A block without its images.
Bare(e) == [e EXCEPT !.images = <<>>]
BareBlocks(body) ==
    [i \in 1..Len(BodyBlocks(body)) |-> Bare(BodyBlocks(body)[i])]

BodyImages(body) == concat([i \in 1..Len(body) |-> body[i].images])

\* The body with its j-th image made corrupt.
WithCorruptImage(body, j) ==
    [i \in 1..Len(body) |->
        [body[i] EXCEPT !.images =
            [k \in 1..Len(body[i].images) |->
                IF Len(BodyImages(SubSeq(body, 1, i - 1))) + k = j
                THEN CorruptImage ELSE body[i].images[k]]]]

\* The image an outcome is about: the outcomes of a paragraph go through
\* the images of the document in turn.
ImageOfOutcome(p, body) == ((p - 1) % Len(BodyImages(body))) + 1

C6_ImageFailureIsLocal ==
    VisionDocx =>
        /\ exc = NoExc
        /\ DocxBody = <<Para(<<"Intro">>, <<>>), Para(<<>>, <<CorruptImage>>),
                        Para(<<"Conclusion">>, <<>>)>>
             => /\ ret.content.text = <<"Intro", "\n", "\n", "Conclusion">>
                /\ Len(ret.content.images) = 1
                /\ "error" \in DOMAIN ret.content.images[1]
                /\ "extracted_content" \notin DOMAIN ret.content.images[1]
        /\ \A j \in 1..Len(BodyImages(DocxBody)) :
             LET other == extract_from_docx(
                              [arg.file_path.file EXCEPT
                                  !.body = WithCorruptImage(DocxBody, j)]).val
             IN  /\ other.text = ret.content.text
                 /\ other.tables = ret.content.tables
                 /\ Len(other.images) = Len(ret.content.images)
                 /\ "error" \in DOMAIN other.images[j]
                 /\ \A p \in 1..Len(other.images) :
                       ImageOfOutcome(p, DocxBody) # j
                           => other.images[p] = ret.content.images[p]

C6_Witness ==
    /\ VisionDocx
    /\ DocxBody = <<Para(<<"Intro">>, <<>>), Para(<<>>, <<CorruptImage>>),
                    Para(<<"Conclusion">>, <<>>)>>
    /\ ret.content.text = <<"Intro", "\n", "\n", "Conclusion">>
    /\ Len(ret.content.images) = 1
    /\ "error" \in DOMAIN ret.content.images[1]

(***************************************************************************)
(* C7, as claimed.  The images of the result are one outcome per embedded  *)
(* image, in document order: as many outcomes as images, the i-th outcome  *)
(* failed exactly when the i-th image does not decode.                     *)
(***************************************************************************)
C7_OneOutcomePerImage ==
    VisionDocx =>
        /\ Len(ret.content.images) = Len(BodyImages(DocxBody))
        /\ \A i \in 1..Len(BodyImages(DocxBody)) :
              ("error" \in DOMAIN ret.content.images[i])
                  <=> ~BodyImages(DocxBody)[i].decodable

(***************************************************************************)
(* PPTX extraction, read back.                                             *)
(***************************************************************************)
OcrPptx == IsProcess("pptx") /\ arg.uploaded_file.readable
VisionPptx == IsExtract({".pptx", ".ppt"}) /\ arg.file_path.file.readable
PptxSlides == IF op = "process_file" THEN arg.uploaded_file.slides
              ELSE arg.file_path.file.slides

\* The slide numbers of the result, in the order the result lists them.
SlideNumbers ==
    IF op = "process_file" THEN HeaderNumbers(ret, "--- Slide ")
    ELSE [i \in 1..Len(ret.content.slides) |->
             ret.content.slides[i].slide_number]

\* A slide has a non-blank shape text or a non-blank table row.
SlideHasText(slide) ==
    \E k \in 1..Len(slide) :
        \/ slide[k].has_text /\ NotBlank(slide[k].text)
        \/ /\ slide[k].has_table
           /\ \E r \in 1..Len(slide[k].rows) :
                 NotBlank(join(<<" ", "|", " ">>, slide[k].rows[r]))

(***************************************************************************)
(* C8, as claimed.  The result of PPTX extraction has one entry per slide, *)
(* numbered 1, 2, ..., N in slide order, whatever the slides hold.         *)
(***************************************************************************)
C8_EverySlideListed ==
    (OcrPptx \/ VisionPptx) => SlideNumbers = UpTo(Len(PptxSlides))

(***************************************************************************)
(* C8, amended.  extract_from_pptx returns one entry per slide, numbered   *)
(* 1, 2, ..., N in slide order, whatever the slides hold.                  *)
(* extract_text_from_pptx lists, in increasing order, exactly the slides   *)
(* that have a non-blank shape text or a non-blank table row: a slide with *)
(* nothing beyond its header is left out.                                  *)
(***************************************************************************)
C8_SlidesListedInOrder ==
    /\ VisionPptx => exc = NoExc /\ SlideNumbers = UpTo(Len(PptxSlides))
    /\ OcrPptx =>
          /\ StrictlyIncreasing(SlideNumbers)
          /\ {SlideNumbers[j] : j \in 1..Len(SlideNumbers)}
               = {i \in 1..Len(PptxSlides) : SlideHasText(PptxSlides[i])}

\* Three slides, the second one an empty title placeholder.
C8_Witness ==
    /\ VisionPptx
    /\ Len(PptxSlides) = 3
    /\ PptxSlides[2] = <<TextShape(<<>>)>>
    /\ SlideNumbers = <<1, 2, 3>>
    /\ ret.content.slides[2].text = <<>>

(***************************************************************************)
(* C9.  Numbering normalization is applied to what the vision recognizer   *)
(* returns and to nothing else.  The line "1. Mitochondria produce ATP"    *)
(* answered by the recognizer, for an image file or for an embedded image, *)
(* comes out as "Mitochondria produce ATP"; the same line read by OCR, or  *)
(* found in the text layer of a PDF page, in a DOCX paragraph or in the    *)
(* text of a PPTX shape, is in the output as it was.                       *)
(***************************************************************************)
Normalized == <<"Mitochondria produce ATP">>

\* The recognized contents among the outcomes of embedded images.
Extracted(images) ==
    {images[i].extracted_content :
        i \in {k \in 1..Len(images) : "extracted_content" \in DOMAIN images[k]}}

\* The outcomes of every image the result holds.
ResultImages ==
    IF lower(arg.file_path.suffix) = ".docx" THEN ret.content.images
    ELSE concat([i \in 1..Len(ret.content.slides) |->
                    ret.content.slides[i].images])

C9_OnlyVisionOutputNormalized ==
    /\ (IsExtract({".png", ".jpg", ".jpeg", ".bmp", ".tiff", ".webp"})
          /\ arg.file_path.file.vision = Ok(NumberedLine))
         => ret.content.extracted_content = Normalized
    /\ (VisionDocx \/ VisionPptx)
         => /\ \A t \in Extracted(ResultImages) : ~Contains(t, NumberedLine)
            /\ \A i \in 1..Len(ResultImages) :
                  "extracted_content" \in DOMAIN ResultImages[i]
                      => ResultImages[i].extracted_content
                           \in {Normalized, <<"Error extracting image: ", "APIError">>}
    /\ (Done("process_file")
          /\ arg.file_type \in {"jpg", "jpeg", "png", "bmp", "tiff", "gif"}
          /\ arg.uploaded_file.openable
          /\ (arg.use_ocr => arg.uploaded_file.image.pre)
          /\ arg.uploaded_file.image.ocr = Ok(NumberedLine \o <<"\n">>))
         => ret = NumberedLine
    /\ (OcrPdf \/ TextPdf)
         => \A i \in ListedPages :
              (~PageFails(i) /\ strip(PageText(i)) = NumberedLine)
                  => Contains(PdfText, PageHeader(i) \o <<"\n">> \o NumberedLine)
    /\ (OcrDocx \/ VisionDocx)
         => \A i \in 1..Len(DocxBody) :
              DocxBody[i] = Para(NumberedLine, <<>>)
                  => Contains(IF op = "process_file" THEN ret
                              ELSE ret.content.text,
                              NumberedLine)
    /\ OcrPptx
         => \A i \in 1..Len(PptxSlides) :
              (\E k \in 1..Len(PptxSlides[i]) :
                  PptxSlides[i][k] = TextShape(NumberedLine))
                  => Contains(ret, NumberedLine)
    /\ VisionPptx
         => \A i \in 1..Len(PptxSlides) :
              (\E k \in 1..Len(PptxSlides[i]) :
                  PptxSlides[i][k] = TextShape(NumberedLine))
                  => Contains(ret.content.slides[i].text, NumberedLine)

C9_Witness ==
    /\ IsExtract({".png"})
    /\ arg.file_path.file.vision = Ok(NumberedLine)
    /\ ret.content.extracted_content = <<"Mitochondria produce ATP">>

(***************************************************************************)
(* C10, as claimed.  A container that cannot be parsed reaches the caller  *)
(* as a typed failure: the call does not raise, and what it returns is not *)
(* shaped like an extraction, that is, it is not a text where extractions  *)
(* are texts, and it has no "content" where extractions have one.          *)
(***************************************************************************)
CorruptContainer ==
    \/ /\ Done("process_file")
       /\ arg.file_type \in {"pdf", "docx", "pptx"}
       /\ ~arg.uploaded_file.readable
    \/ /\ IsExtract({".pdf", ".docx", ".pptx", ".ppt"})
       /\ ~arg.file_path.file.readable

\* The Python type of what an entry point returns when it finds nothing.
TypeOfEmptyExtraction(entry) ==
    IF entry = "process_file" THEN "str" ELSE "dict with content"

\* The Python type of the value returned by the call of the state.
TypeOfResult ==
    IF op = "process_file" THEN "str"
    ELSE IF "content" \in DOMAIN ret THEN "dict with content"
    ELSE "dict without content"

C10_ContainerFailureIsTyped ==
    CorruptContainer
        => /\ exc = NoExc
           /\ TypeOfResult # TypeOfEmptyExtraction(op)

(***************************************************************************)
(* C10, amended.  A container that cannot be parsed is never reported as   *)
(* an empty result, and never as a typed failure.  The extractors of       *)
(* DocumentProcessor and extract_from_pdf return, without raising, a       *)
(* result of the type and fields of an extraction whose text is the        *)
(* message "Error extracting text from PDF|DOCX|PPTX: ..." or "Text        *)
(* extraction error: ..."; extract_from_file raises the parser's exception *)
(* for a DOCX or a PPTX.                                                   *)
(***************************************************************************)
C10_ContainerFailureIsMessage ==
    CorruptContainer
        => /\ Done("process_file")
              => /\ exc = NoExc
                 /\ Len(ret) = 2
                 /\ ret[1] = (CASE arg.file_type = "pdf"
                                     -> "Error extracting text from PDF: "
                                [] arg.file_type = "docx"
                                     -> "Error extracting text from DOCX: "
                                [] OTHER
                                     -> "Error extracting text from PPTX: ")
           /\ IsExtract({".pdf"})
              => /\ exc = NoExc
                 /\ ret.file_type = "pdf"
                 /\ Len(ret.content.text) = 2
                 /\ ret.content.text[1] = "Text extraction error: "
           /\ IsExtract({".docx", ".pptx", ".ppt"})
              => /\ exc # NoExc
                 /\ ret = None

C10_Witness ==
    /\ Done("process_file")
    /\ arg.file_type = "docx"
    /\ ~arg.uploaded_file.readable
    /\ ret = <<"Error extracting text from DOCX: ", "PackageNotFoundError">>

(***************************************************************************)
(* C11, as claimed.  The outcome of an embedded image holds the key        *)
(* "extracted_content" only when the image decoded and its recognition     *)
(* request was answered; when the decoding or the request fails, the       *)
(* outcome holds the key "error".                                          *)
(***************************************************************************)
\* The images of the picture shapes of a presentation, slide by slide.
PptxPictures(slides) ==
    concat([i \in 1..Len(slides) |->
               [k \in 1..Len(SelectSeq(slides[i],
                                       LAMBDA sh : sh.shape_type = PICTURE)) |->
                   SelectSeq(slides[i],
                             LAMBDA sh : sh.shape_type = PICTURE)[k].image]])

\* The image the p-th outcome of the result is about.
OutcomeImage(p) ==
    IF lower(arg.file_path.suffix) = ".docx"
    THEN BodyImages(DocxBody)[ImageOfOutcome(p, DocxBody)]
    ELSE PptxPictures(PptxSlides)[p]

Recognized(image) == image.decodable /\ image.vision.exc = NoExc

C11_FailedRecognitionIsTaggedFailed ==
    (VisionDocx \/ VisionPptx) =>
        \A p \in 1..Len(ResultImages) :
            /\ "extracted_content" \in DOMAIN ResultImages[p]
                  <=> Recognized(OutcomeImage(p))
            /\ "error" \in DOMAIN ResultImages[p]
                  <=> ~Recognized(OutcomeImage(p))

(***************************************************************************)
(* The recognition requests of a call, read back.                          *)
(***************************************************************************)
Count(events, e) == Len(SelectSeq(events, LAMBDA x : x = e))

\* The requests the call of the state made to a recognizer.
RecognitionCalls ==
    Count(calls, "image_to_string") + Count(calls, "chat.completions.create")

\* The image file of a process_file request that PIL opens.
OcrImage ==
    /\ Done("process_file")
    /\ arg.file_type \in {"jpg", "jpeg", "png", "bmp", "tiff", "gif"}
    /\ arg.uploaded_file.openable
VisionImage == IsExtract({".png", ".jpg", ".jpeg", ".bmp", ".tiff", ".webp"})

\* The recognizer fails on some unit of the request.
RecognitionFails ==
    \/ OcrImage /\ arg.uploaded_file.image.ocr.exc # NoExc
                /\ (arg.use_ocr => arg.uploaded_file.image.pre)
    \/ OcrPdf /\ \E i \in 1..Len(PdfPages) :
                    /\ PdfPages[i].ocr.exc # NoExc
                    /\ arg.use_ocr => PdfPages[i].pre
    \/ VisionImage /\ arg.file_path.file.vision.exc # NoExc
    \/ (VisionDocx \/ VisionPptx)
          /\ \E p \in 1..Len(ResultImages) :
                /\ OutcomeImage(p).decodable
                /\ OutcomeImage(p).vision.exc # NoExc

\* The units of the request a recognizer may be asked about.
RecognitionUnits ==
    IF OcrImage \/ VisionImage THEN 1
    ELSE IF OcrPdf THEN Len(PdfPages)
    ELSE IF VisionDocx THEN Len(BodyImages(DocxBody))
    ELSE IF VisionPptx THEN Len(PptxPictures(PptxSlides))
    ELSE 0

\* What the call returned is a failure of the call as a whole: it raised,
\* or its result is nothing but an error message.
TopLevelFailure ==
    \/ exc # NoExc
    \/ /\ op = "process_file"
       /\ Len(ret) = 2
       /\ ret[1] \in {"Error extracting text from image: ",
                      "Error extracting text from PDF: "}
    \/ /\ op = "extract_from_file"
       /\ "error" \in DOMAIN ret

(***************************************************************************)
(* C12, as claimed.  When a recognizer fails, the call ends in a failure   *)
(* of the call as a whole, and no unit is put to a recognizer more than    *)
(* once.                                                                   *)
(***************************************************************************)
C12_RecognizerFailureIsTopLevel ==
    /\ RecognitionFails => TopLevelFailure
    /\ pc = "done" /\ op # "main" => RecognitionCalls <= RecognitionUnits

(***************************************************************************)
(* C12, amended.  A failing recognizer never makes the call raise and is   *)
(* never asked again.  extract_text_from_image returns the message "Error  *)
(* extracting text from image: ..." as its text: that is the whole result  *)
(* for an image file and the text of the page, under the page's header,    *)
(* in a PDF read with use_ocr True.  With use_ocr False the first failing  *)
(* page ends the call with "Error extracting text from PDF: ...".          *)
(* extract_with_vision returns "Error extracting image: ..." as the        *)
(* recognized content of the image file or of the embedded image.  The     *)
(* requests made are one for each page whose preprocessing succeeded (with *)
(* use_ocr False: one for each page up to the first failing one), one for  *)
(* an image file, and one for each outcome recorded for an embedded image  *)
(* that decodes.                                                           *)
(***************************************************************************)
C12_RecognizerFailureIsInline ==
    /\ RecognitionFails => exc = NoExc
    /\ (OcrImage /\ RecognitionFails)
          => /\ ret = <<"Error extracting text from image: ",
                        arg.uploaded_file.image.ocr.exc>>
             /\ RecognitionCalls = 1
    /\ (OcrPdf /\ arg.use_ocr)
          => /\ \A i \in 1..Len(PdfPages) :
                   (PdfPages[i].pre /\ PdfPages[i].ocr.exc # NoExc)
                       => Contains(ret, PageHeader(i)
                               \o <<"\n", "Error extracting text from image: ",
                                    PdfPages[i].ocr.exc, "\n">>)
             /\ RecognitionCalls
                  = Cardinality({i \in 1..Len(PdfPages) : PdfPages[i].pre})
    /\ (OcrPdf /\ ~arg.use_ocr /\ RecognitionFails)
          => LET first == CHOOSE i \in 1..Len(PdfPages) :
                            /\ PdfPages[i].ocr.exc # NoExc
                            /\ \A j \in 1..(i - 1) : PdfPages[j].ocr.exc = NoExc
             IN  /\ ret = <<"Error extracting text from PDF: ",
                            PdfPages[first].ocr.exc>>
                 /\ RecognitionCalls = first
    /\ VisionImage
          => /\ RecognitionCalls = 1
             /\ RecognitionFails
                  => /\ ret.file_type = "image"
                     /\ ret.content.extracted_content
                          = <<"Error extracting image: ",
                              arg.file_path.file.vision.exc>>
    /\ (VisionDocx \/ VisionPptx)
          => /\ \A p \in 1..Len(ResultImages) :
                   (OutcomeImage(p).decodable
                      /\ OutcomeImage(p).vision.exc # NoExc)
                       => /\ "extracted_content" \in DOMAIN ResultImages[p]
                          /\ ResultImages[p].extracted_content
                               = <<"Error extracting image: ",
                                   OutcomeImage(p).vision.exc>>
             /\ RecognitionCalls
                  = Cardinality({p \in 1..Len(ResultImages) :
                                    OutcomeImage(p).decodable})

\* Two pages read with use_ocr True, the recognizer failing on the first:
\* both pages are in the output and the recognizer was asked twice.
C12_Witness ==
    /\ OcrPdf /\ arg.use_ocr
    /\ Len(PdfPages) = 2
    /\ PdfPages[1].pre /\ PdfPages[1].ocr.exc # NoExc
    /\ PdfPages[2].pre /\ PdfPages[2].ocr = Ok(NumberedLine \o <<"\n">>)
    /\ HeaderNumbers(ret, "--- Page ") = <<1, 2>>
    /\ Contains(ret, <<"Error extracting text from image: ", "TesseractError">>)
    /\ RecognitionCalls = 2

(***************************************************************************)
(* C13, as claimed.  Every extension of the accepted set is routed to the  *)
(* extractor of its format by both entry points, and none is answered as   *)
(* an unsupported format.                                                  *)
(***************************************************************************)
\* The extractor an extension belongs to, by entry point.
ExtractorOf(entry, extension) ==
    IF extension \in {"pdf", ".pdf"}
    THEN (IF entry = "process_file" THEN "extract_text_from_pdf"
          ELSE "extract_from_pdf")
    ELSE IF extension \in {"docx", ".docx"}
    THEN (IF entry = "process_file" THEN "extract_text_from_docx"
          ELSE "extract_from_docx")
    ELSE IF extension \in {"pptx", "ppt", ".pptx", ".ppt"}
    THEN (IF entry = "process_file" THEN "extract_text_from_pptx"
          ELSE "extract_from_pptx")
    ELSE (IF entry = "process_file" THEN "extract_text_from_image"
          ELSE "extract_from_image")

\* The call was answered as an unsupported format.
AnsweredUnsupported ==
    /\ exc = NoExc
    /\ IF op = "process_file" THEN ret = unsupported_file_format
       ELSE "error" \in DOMAIN ret

\* The calls of the request but the progress lines written to the page.
Work == SelectSeq(calls, LAMBDA e : e # "st.write")

\* The call went to the extractor: it is the first call made, unless opening
\* the image raised before it.
RoutedTo(extractor) ==
    \/ Len(Work) > 0 /\ Work[1] = extractor
    \/ /\ extractor = "extract_text_from_image"
       /\ exc # NoExc
       /\ Work = <<>>

C13_EveryExtensionRouted ==
    /\ (Done("process_file") /\ arg.file_type \in SupportedExtensions)
          => /\ ~AnsweredUnsupported
             /\ RoutedTo(ExtractorOf(op, arg.file_type))
    /\ (Done("extract_from_file") /\ arg.file_path.suffix \in SupportedSuffixes)
          => /\ ~AnsweredUnsupported
             /\ RoutedTo(ExtractorOf(op, arg.file_path.suffix))

(***************************************************************************)
(* C13, amended.  Each entry point accepts a part of the set.              *)
(* process_file routes pdf, docx, pptx and jpg, jpeg, png, bmp, tiff, gif  *)
(* to the extractor of the format and answers ppt and webp as unsupported. *)
(* extract_from_file routes .pdf, .docx, .pptx, .ppt and .png, .jpg,       *)
(* .jpeg, .bmp, .tiff, .webp, in any letter case, and answers .gif as      *)
(* unsupported.                                                            *)
(***************************************************************************)
C13_EachEntryPointRoutesItsOwnSet ==
    /\ Done("process_file") =>
          IF arg.file_type \in SupportedExtensions \ {"ppt", "webp"}
          THEN /\ ~AnsweredUnsupported
               /\ RoutedTo(ExtractorOf(op, arg.file_type))
          ELSE AnsweredUnsupported /\ Work = <<>>
    /\ Done("extract_from_file") =>
          IF arg.file_path.suffix \in (SupportedSuffixes \ {".gif"}) \cup {".PDF"}
          THEN /\ ~AnsweredUnsupported
               /\ RoutedTo(ExtractorOf(op,
                     IF arg.file_path.suffix = ".PDF" THEN ".pdf"
                     ELSE arg.file_path.suffix))
               /\ exc = NoExc =>
                     ret.file_type \in {"pdf", "docx", "pptx", "image"}
          ELSE AnsweredUnsupported /\ Work = <<>>

\* A webp image handed to process_file is answered as unsupported.
C13_Witness ==
    /\ Done("process_file")
    /\ arg.file_type = "webp"
    /\ ret = <<"Unsupported file format">>
    /\ calls = <<>>

(***************************************************************************)
(* C14, as claimed.  An image that cannot be opened, preprocessed or       *)
(* recognized never makes image extraction raise: process_file returns an  *)
(* extraction error for it, and in a PDF such a page leaves the other      *)
(* pages in the output.                                                    *)
(***************************************************************************)
\* Some step of the image extraction of the request fails.
ImageStepFails ==
    \/ ~arg.uploaded_file.openable
    \/ arg.use_ocr /\ ~arg.uploaded_file.image.pre
    \/ arg.uploaded_file.image.ocr.exc # NoExc

C14_MalformedImageNeverCrashes ==
    /\ (Done("process_file")
          /\ arg.file_type \in {"jpg", "jpeg", "png", "bmp", "tiff", "gif"})
          => /\ exc = NoExc
             /\ ImageStepFails
                  => /\ Len(ret) = 2
                     /\ ret[1] = "Error extracting text from image: "
    /\ OcrPdf
          => /\ exc = NoExc
             /\ \A i \in 1..Len(PdfPages) :
                   (~PageFails(i) /\ NotBlank(PageText(i)))
                       => Contains(ret, PageHeader(i) \o <<"\n">>
                                          \o strip(PageText(i)))

(***************************************************************************)
(* C15.  The text of extract_from_docx and of extract_from_pptx keeps the  *)
(* order of the document.  The text of a DOCX is its paragraphs that are   *)
(* not blank, in body order, joined by a blank line.  A PPTX has one entry *)
(* per slide in slide order, and the text of entry k is the shape texts of *)
(* slide k that are not blank, in shape order, one per line: no text is    *)
(* moved, repeated or placed under another slide.                          *)
(***************************************************************************)
\* The texts of the elements of a sequence that hold a text that is not
\* blank, in the order of the sequence.
TextsInOrder(elements, HasText(_)) ==
    LET kept == {i \in 1..Len(elements) :
                   HasText(elements[i]) /\ NotBlank(elements[i].text)}
        \* the place in elements of the n-th kept element
        place[n \in 1..Cardinality(kept)] ==
            CHOOSE i \in kept : Cardinality({j \in kept : j <= i}) = n
    IN  [n \in 1..Cardinality(kept) |-> elements[place[n]].text]

IsCTP(e) == e.kind = "CT_P"
ExposesText(shape) == shape.has_text

C15_TextKeepsDocumentOrder ==
    /\ VisionDocx
          => ret.content.text
               = join(<<"\n", "\n">>, TextsInOrder(DocxBody, IsCTP))
    /\ VisionPptx
          => /\ Len(ret.content.slides) = Len(PptxSlides)
             /\ \A k \in 1..Len(PptxSlides) :
                   /\ ret.content.slides[k].slide_number = k
                   /\ ret.content.slides[k].text
                        = join(<<"\n">>, TextsInOrder(PptxSlides[k], ExposesText))

\* Two slides: "Title", a blank shape and "Body" on the first, a numbered
\* line and a table on the second.
C15_Witness ==
    /\ VisionPptx
    /\ PptxSlides = << <<TextShape(<<"Title">>), TextShape(<<" ">>),
                         TextShape(<<"Body">>)>>,
                       <<TextShape(NumberedLine), TableShape(Table1)>> >>
    /\ ret.content.slides[1].text = <<"Title", "\n", "Body">>
    /\ ret.content.slides[2].text = NumberedLine

FirstFailingPage ==
    IF \E i \in 1..Len(PdfPages) : PageFails(i)
    THEN CHOOSE i \in 1..Len(PdfPages) :
            PageFails(i) /\ \A j \in 1..(i - 1) : ~PageFails(j)
    ELSE 0

C17_PartialContentKept ==
    ((OcrPdf \/ TextPdf) /\ FirstFailingPage > 0)
        => /\ \E e \in ErrorAnnotations : Contains(PdfText, <<e>>)
           /\ \A i \in 1..(FirstFailingPage - 1) :
                 NotBlank(PageText(i))
                     => Contains(PdfText, PageHeader(i) \o <<"\n">>
                                            \o strip(PageText(i)))

(***************************************************************************)
(* C18, as claimed.  A dispatch call invokes exactly one extractor when    *)
(* the tag is one the entry point supports, and no extractor and no        *)
(* recognizer when it is not; apart from what the extractor does, it does  *)
(* nothing.                                                                *)
(***************************************************************************)
Extractors ==
    {"extract_text_from_image", "extract_text_from_pdf",
     "extract_text_from_docx", "extract_text_from_pptx",
     "extract_from_docx", "extract_from_pdf", "extract_from_pptx",
     "extract_from_image"}

ExtractorCalls == Len(SelectSeq(calls, LAMBDA e : e \in Extractors))

\* The tag of the request is one its entry point has a branch for.
TagSupported ==
    IF op = "process_file"
    THEN arg.file_type \in SupportedExtensions \ {"ppt", "webp"}
    ELSE lower(arg.file_path.suffix) \in SupportedSuffixes \ {".gif"}

C18_DispatchOnlyRoutes ==
    (Done("process_file") \/ Done("extract_from_file"))
        => /\ TagSupported
                => /\ ExtractorCalls = 1
                   /\ calls[1] \in Extractors
           /\ ~TagSupported => calls = <<>>

(***************************************************************************)
(* C18, amended.  A dispatch call invokes at most one extractor, and no    *)
(* extractor and no recognizer for a tag it has no branch for.  For a tag  *)
(* it has a branch for it invokes exactly one, with one exception:         *)
(* process_file opens an image itself and, when opening raises, raises     *)
(* without having invoked any.  extract_from_file writes one progress line *)
(* to the page before it looks at the tag, whatever the tag; beyond that   *)
(* and the extractor's own effects (only extract_text_from_pdf creates a   *)
(* temporary file) a dispatch call has no effect.                          *)
(***************************************************************************)
C18_DispatchRoutesAtMostOnce ==
    /\ Done("process_file")
          => /\ "st.write" \notin {calls[i] : i \in 1..Len(calls)}
             /\ IF ~TagSupported
                THEN calls = <<>> /\ exc = NoExc /\ created = {}
                ELSE IF exc # NoExc
                THEN /\ arg.file_type \notin {"pdf", "docx", "pptx"}
                     /\ ~arg.uploaded_file.openable
                     /\ calls = <<>>
                ELSE /\ ExtractorCalls = 1
                     /\ calls[1] = ExtractorOf(op, arg.file_type)
             /\ created # {} => calls[1] = "extract_text_from_pdf"
    /\ Done("extract_from_file")
          => /\ calls[1] = "st.write"
             /\ Count(calls, "st.write") = 1
             /\ created = {} /\ tmpfiles = {}
             /\ IF ~TagSupported THEN calls = <<"st.write">>
                ELSE /\ ExtractorCalls = 1
                     /\ calls[2] = ExtractorOf(op, lower(arg.file_path.suffix))

\* An unknown suffix: the progress line and nothing else.
C18_Witness ==
    /\ Done("extract_from_file")
    /\ arg.file_path.suffix = ".xyz"
    /\ calls = <<"st.write">>
    /\ "error" \in DOMAIN ret

(***************************************************************************)
(* C19, as claimed.  In extract_from_pptx the images of a slide entry are  *)
(* one outcome per picture shape of the slide, in shape order; a picture   *)
(* that fails to decode or to be recognized gets a failed outcome, and the *)
(* text and the tables of the slide, its other pictures and the later      *)
(* slides are extracted all the same.                                      *)
(***************************************************************************)
\* The picture shapes of a slide, in shape order.
Pictures(slide) == SelectSeq(slide, LAMBDA sh : sh.shape_type = PICTURE)

\* The tables of a slide, in shape order.
SlideTables(slide) ==
    [k \in 1..Len(SelectSeq(slide, LAMBDA sh : sh.has_table)) |->
        SelectSeq(slide, LAMBDA sh : sh.has_table)[k].rows]

\* One outcome per picture of slide k, each about its own picture: content
\* for a picture that decodes, an error for one that does not.
OnePerPicture(k) ==
    LET entry == ret.content.slides[k]
        pics == Pictures(PptxSlides[k])
    IN  /\ Len(entry.images) = Len(pics)
        /\ \A p \in 1..Len(pics) :
              IF pics[p].image.decodable
              THEN /\ "extracted_content" \in DOMAIN entry.images[p]
                   /\ pics[p].image.vision.exc = NoExc
                        => entry.images[p].extracted_content
                             = remove_numbering(pics[p].image.vision.val)
              ELSE "error" \in DOMAIN entry.images[p]

\* The text and the tables of slide k are those of the slide.
RestOfSlideKept(k) ==
    /\ ret.content.slides[k].text
         = join(<<"\n">>, TextsInOrder(PptxSlides[k], ExposesText))
    /\ ret.content.slides[k].tables = SlideTables(PptxSlides[k])

\* Every picture that failed has a failed outcome.
FailuresTagged(k) ==
    \A p \in 1..Len(Pictures(PptxSlides[k])) :
        ~Recognized(Pictures(PptxSlides[k])[p].image)
            => /\ p <= Len(ret.content.slides[k].images)
               /\ "error" \in DOMAIN ret.content.slides[k].images[p]

C19_PictureFailureIsLocal ==
    VisionPptx
        => /\ Len(ret.content.slides) = Len(PptxSlides)
           /\ \A k \in 1..Len(PptxSlides) :
                 OnePerPicture(k) /\ RestOfSlideKept(k) /\ FailuresTagged(k)

(***************************************************************************)
(* C20, as claimed.  remove_numbering works line by line.  A line that     *)
(* begins, after optional blanks, with digits followed by ". ", ": " or    *)
(* " : " loses that prefix and keeps the rest; every other line, such as   *)
(* one that begins with a decimal number or with a count, is returned as   *)
(* it is.                                                                  *)
(***************************************************************************)
\* Where the numbering artifact at the head of a line ends (0 when the line
\* has none): blanks, digits, then "." or ":" or blanks and ":", then a
\* blank, with the blanks after it.
ArtifactEnd(line) ==
    LET blanks == Len(line) - Len(lstrip(line))
        s == lstrip(line)
        d == digit_run(s)
        after == SubSeq(s, d + 1, Len(s))
        gap == Len(after) - Len(lstrip(after))
        mark == IF Len(after) > 0 /\ after[1] \in {".", ":"} THEN 1
                ELSE IF gap > 0 /\ Len(after) > gap /\ after[gap + 1] = ":"
                THEN gap + 1
                ELSE 0
        rest == SubSeq(after, mark + 1, Len(after))
    IN  IF d >= 1 /\ mark > 0 /\ Len(rest) > 0 /\ rest[1] = " "
        THEN blanks + d + mark + (Len(rest) - Len(lstrip(rest)))
        ELSE 0

\* The line as the claim returns it.
WithoutArtifact(line) == SubSeq(line, ArtifactEnd(line) + 1, Len(line))

C20_OnlyNumberingArtifactsRemoved ==
    Done("remove_numbering")
        => LET lines == split_lines(arg.text, <<>>)
               cleaned == split_lines(ret, <<>>)
           IN  /\ Len(cleaned) = Len(lines)
               /\ \A i \in 1..Len(lines) : cleaned[i] = WithoutArtifact(lines[i])

(***************************************************************************)
(* C21, as claimed.  Every image sent to the remote recognizer is          *)
(* base64-encoded PNG data: the bytes under the base64 text of every       *)
(* request are PNG, for an embedded image of a DOCX or a PPTX              *)
(* (image_to_base64) and for an image file of any accepted suffix          *)
(* (encode_image_to_base64).                                               *)
(***************************************************************************)
C21_EveryRequestIsPng ==
    \A i \in 1..Len(requests) :
        /\ requests[i].image_base64.encoding = "base64"
        /\ requests[i].image_base64.data.format = "PNG"

(***************************************************************************)
(* C22, as claimed.  Every call of the OCR engine made by                  *)
(* DocumentProcessor passes the same config, "--oem 3 --psm 6", whatever   *)
(* use_ocr is and whatever the type of the document.                       *)
(***************************************************************************)
C22_OcrModeIsFixed ==
    /\ Len(configs) = Count(calls, "image_to_string")
    /\ \A i \in 1..Len(configs) : configs[i] = "--oem 3 --psm 6"

(***************************************************************************)
(* Table extraction, read back.                                            *)
(***************************************************************************)
\* The line of a row: its cells joined by " | ".
RowLine(row) == join(<<" ", "|", " ">>, row)
EveryRow(rows) == [r \in 1..Len(rows) |-> RowLine(rows[r])]
NonBlankRows(rows) == SelectSeq(EveryRow(rows), NotBlank)

\* The text of DocumentProcessor for a DOCX body whose table rows give the
\* lines Lines(rows): the non-blank paragraphs, then the tables.
DocxTextWith(body, Lines(_)) ==
    LET paras == SelectSeq(body, IsParagraph)
        tbls == SelectSeq(body, IsTable)
    IN  join(<<"\n">>,
             [i \in 1..Len(paras) |-> paras[i].text]
             \o concat([i \in 1..Len(tbls) |-> Lines(tbls[i].rows)]))

\* The same for the slides of a PPTX: a slide is its header and the lines of
\* its shapes, and is listed when it has a line beyond the header.
SlideLinesWith(slide, Lines(_)) ==
    concat([k \in 1..Len(slide) |->
               (IF slide[k].has_text /\ NotBlank(slide[k].text)
                THEN <<slide[k].text>> ELSE <<>>)
               \o (IF slide[k].has_table THEN Lines(slide[k].rows) ELSE <<>>)])

PptxTextWith(slides, Lines(_)) ==
    LET all == [i \in 1..Len(slides) |->
                   <<(<<"--- Slide ">> \o str(i) \o <<" ---">>)>>
                   \o SlideLinesWith(slides[i], Lines)]
        listed == SelectSeq(all, LAMBDA t : Len(t) > 1)
    IN  join(<<"\n", "\n">>,
             [i \in 1..Len(listed) |-> join(<<"\n">>, listed[i])])

\* The tables of the result of DocumentExtractor are the tables of the
\* source, every row and every cell in its place.
VisionTablesKept ==
    /\ VisionDocx =>
          /\ exc = NoExc
          /\ ret.content.tables =
                [i \in 1..Len(SelectSeq(DocxBody, IsTable)) |->
                    SelectSeq(DocxBody, IsTable)[i].rows]
    /\ VisionPptx =>
          /\ exc = NoExc
          /\ \A i \in 1..Len(PptxSlides) :
                ret.content.slides[i].tables =
                   [k \in 1..Len(SelectSeq(PptxSlides[i],
                                           LAMBDA sh : sh.has_table)) |->
                       SelectSeq(PptxSlides[i], LAMBDA sh : sh.has_table)[k].rows]

(***************************************************************************)
(* C23, as claimed.  Every row of every table of a DOCX or a PPTX gives    *)
(* exactly one row of the output, in source order, none dropped, a row of  *)
(* empty cells included: one line of cells joined by " | " in the text of  *)
(* DocumentProcessor, one list of cell texts in the tables of              *)
(* DocumentExtractor.                                                      *)
(***************************************************************************)
C23_EveryRowKept ==
    /\ OcrDocx => ret = DocxTextWith(DocxBody, EveryRow)
    /\ OcrPptx => ret = PptxTextWith(PptxSlides, EveryRow)
    /\ VisionTablesKept

(***************************************************************************)
(* C23, amended.  DocumentExtractor keeps every row and every cell of      *)
(* every table, in source order.  DocumentProcessor gives one line per row *)
(* whose joined line is not blank, in source order, and drops the others:  *)
(* a one-cell row whose cell is blank is dropped, while a row of several   *)
(* empty cells is kept, as the line of its separators.                     *)
(***************************************************************************)
C23_NonBlankRowsKeptInOrder ==
    /\ OcrDocx => ret = DocxTextWith(DocxBody, NonBlankRows)
    /\ OcrPptx => ret = PptxTextWith(PptxSlides, NonBlankRows)
    /\ VisionTablesKept

\* A table of three rows: the one-cell empty row is dropped, the row "c", ""
\* and the row of two empty cells are kept in their order.
C23_Witness ==
    /\ OcrDocx
    /\ DocxBody = <<Tbl(Table2)>>
    /\ ret = <<"c", " ", "|", " ", "\n", " ", "|", " ">>

(***************************************************************************)
(* The entries of the output of PDF extraction, read back.                 *)
(***************************************************************************)
\* What is written under the header of page i: what the recognition of the
\* page returned (with use_ocr True stripped, or the error annotation of
\* extract_text_from_image), or the text layer of the page.
TextOfPage(i) ==
    IF op # "process_file" THEN PdfPages[i].val
    ELSE IF ~arg.use_ocr THEN PdfPages[i].ocr.val
    ELSE IF ~PdfPages[i].pre
    THEN <<"Error extracting text from image: ", "cv2.error">>
    ELSE IF PdfPages[i].ocr.exc # NoExc
    THEN <<"Error extracting text from image: ", PdfPages[i].ocr.exc>>
    ELSE strip(PdfPages[i].ocr.val)

PageEntry(i) ==
    PageHeader(i) \o <<"\n">> \o TextOfPage(i)
    \o (IF op = "process_file" THEN <<"\n">> ELSE <<>>)

EntrySeparator == IF op = "process_file" THEN <<"\n">> ELSE <<"\n", "\n">>

\* The entries of the pages the output lists, in the order it lists them.
ListedEntries ==
    [j \in 1..Len(HeaderNumbers(PdfText, "--- Page ")) |->
        PageEntry(HeaderNumbers(PdfText, "--- Page ")[j])]

(***************************************************************************)
(* C24, as claimed.  The output of PDF extraction lists pages in           *)
(* increasing page number, the text of page i under the header             *)
(* "--- Page i ---", and every block of the output is the entry of a page  *)
(* under its header: the output is the entries of the pages it lists and   *)
(* nothing else.                                                           *)
(***************************************************************************)
C24_EveryBlockUnderItsPageHeader ==
    (OcrPdf \/ TextPdf)
        => /\ ListedPages \subseteq 1..Len(PdfPages)
           /\ StrictlyIncreasing(HeaderNumbers(PdfText, "--- Page "))
           /\ PdfText = join(EntrySeparator, ListedEntries)

(***************************************************************************)
(* C25, as claimed.  remove_numbering is idempotent: applied to its own    *)
(* result it returns that result.                                          *)
(***************************************************************************)
C25_RemoveNumberingIdempotent ==
    [][RemoveNumberingAgain => ret' = ret]_vars

\* A line begins with a numbering the function recognizes: after optional
\* blanks, digits followed by ".", ":" or ")", or by blanks and ":".
BeginsWithNumbering(line) ==
    LET s == lstrip(line)
        d == digit_run(s)
        after == SubSeq(s, d + 1, Len(s))
    IN  /\ d >= 1
        /\ Len(lstrip(after)) > 0
        /\ \/ after[1] \in {".", ":", ")"}
           \/ Head(lstrip(after)) = ":"

(***************************************************************************)
(* C25, amended.  remove_numbering is not idempotent.  One pass takes from *)
(* each line at most one prefix of each of its two patterns, so a line     *)
(* such as "1. 2. text" still begins with a numbering after it ("2. text") *)
(* and a second pass takes that one too.  Applied to its own result, the   *)
(* function never lengthens it, and returns it unchanged exactly when no   *)
(* line of it begins with a numbering the function recognizes.             *)
(***************************************************************************)
C25_SecondPassRemovesWhatIsLeft ==
    [][RemoveNumberingAgain =>
          /\ Len(ret') <= Len(ret)
          /\ (ret' = ret) <=>
                \A i \in 1..Len(split_lines(ret, <<>>)) :
                    ~BeginsWithNumbering(split_lines(ret, <<>>)[i])]_vars

\* "3.3.x": the first pass returns "3.x", the second "x".
C25_Witness ==
    /\ op = "remove_numbering" /\ pc = "twice"
    /\ arg.text = <<"3", ".", "3", ".", "x">>
    /\ remove_numbering(arg.text) = <<"3", ".", "x">>
    /\ ret = <<"x">>

(***************************************************************************)
(* C26.  remove_numbering is a pure function that keeps the structure of   *)
(* its input: the result has as many lines as the input, line i of the     *)
(* result is a suffix of line i of the input, the empty text is returned   *)
(* as it is, and the call changes nothing but what it returns.             *)
(***************************************************************************)
IsSuffix(t, s) ==
    Len(t) <= Len(s) /\ SubSeq(s, Len(s) - Len(t) + 1, Len(s)) = t

C26_RemoveNumberingKeepsStructure ==
    [][(RemoveNumbering \/ RemoveNumberingAgain) =>
          LET text == IF pc = "pending" THEN arg.text ELSE ret
              lines == split_lines(text, <<>>)
              cleaned == split_lines(ret', <<>>)
          IN  /\ Len(cleaned) = Len(lines)
              /\ \A i \in 1..Len(lines) : IsSuffix(cleaned[i], lines[i])
              /\ text = <<>> => ret' = <<>>
              /\ UNCHANGED <<op, arg, exc, tmpfiles, created, extracted_data,
                             calls, preprocessed, requests, configs>>]_vars

\* Two lines, the first one numbered: "3.x" and "x" come out as "x" and "x".
C26_Witness ==
    /\ Done("remove_numbering")
    /\ arg.text = <<"3", ".", "x", "\n", "x">>
    /\ ret = <<"x", "\n", "x">>
    /\ extracted_data = None /\ exc = NoExc /\ calls = <<>>

(***************************************************************************)
(* The flashcard app (src/flashcard.py, main).  st.session_state is the    *)
(* record session_state; a dict is the function from its keys to its       *)
(* values, and the index of a card counts from 0 as in the code.  An       *)
(* action is one run of main() with one button clicked, the reruns it      *)
(* asks for (st.rerun) included; displayed is the message the run showed.  *)
(***************************************************************************)
PyTrue == "True"
PyFalse == "False"

\* The dict d after d[k] = v.
setitem(d, k, v) ==
    [x \in (DOMAIN d) \cup {k} |-> IF x = k THEN v ELSE d[x]]

FlashcardTypes == {"Question and Answer", "Terms and Definition"}

\* input_text of the text area: the length of input_text.strip() and the
\* number of blanks around it.
InputTexts ==
    {[stripped |-> 0, blanks |-> 0], [stripped |-> 0, blanks |-> 2],
     [stripped |-> 19, blanks |-> 0], [stripped |-> 20, blanks |-> 2]}

\* not input_text
is_empty(input_text) == input_text.stripped + input_text.blanks = 0

\* len(input_text.strip()) < 20
too_short(input_text) == input_text.stripped < 20

\* What the chat completion of generate_flashcards answers: the request
\* raises, the content is not JSON, or it is a JSON array of n cards.
GenerationAnswers ==
    {[kind |-> "api_error", cards |-> 0], [kind |-> "not_json", cards |-> 0]}
    \cup [kind : {"json"}, cards : 0..MaxCards]

Card(flashcard_type, i) ==
    IF flashcard_type = "Question and Answer"
    THEN [question |-> i, answer |-> i]
    ELSE [term |-> i, definition |-> i]

\* generate_flashcards: the parsed array, or [] from each except clause.
generate_flashcards(flashcard_type, response) ==
    IF response.kind = "json"
    THEN [i \in 1..response.cards |-> Card(flashcard_type, i)]
    ELSE <<>>

\* The st.error of the except clauses of generate_flashcards.
generate_flashcards_error(response) ==
    IF response.kind = "api_error" THEN "Error generating flashcards"
    ELSE IF response.kind = "not_json" THEN "Error parsing flashcards"
    ELSE ""

\* if flashcards: taken for every list.
bool_of_any_list(flashcards) == TRUE

\* if flashcards: a list is true when it is not empty.
bool(flashcards) == Len(flashcards) > 0

\* analyze_text_capacity: the number the model answers, or the estimate of
\* the except clause, which is at least 1.
AnalysisAnswers == {[max_flashcards |-> m] : m \in 1..MaxCapacity}

\* not st.session_state.text_analysis: true of None, which the model holds
\* as the dict without keys; the code only tests the truth of the value.
NoAnalysis == <<>>
not_analysed(state) == DOMAIN state.text_analysis = {}

\* The values the number input "Number of Flashcards" can hold: 1 to
\* max_allowed after an analysis; before one, of the values 1 to 20, those
\* up to MaxCapacity + 1, which no analysis of the model allows.
NumberInputs ==
    IF not_analysed(session_state) THEN 1..(MaxCapacity + 1)
    ELSE 1..session_state.text_analysis.max_flashcards

\* The button "Next" that is never disabled.
next_never_disabled(state) == FALSE

\* disabled= of the button "Next".
next_disabled(state) == state.current_card >= Len(state.flashcards) - 1

\* disabled= of the button "Previous".
previous_disabled(state) == state.current_card = 0

\* What check_answer returns: the verdict of the model, or is_correct False
\* from the except clause.
CheckResults ==
    {[is_correct |-> PyTrue, feedback |-> "Correct"],
     [is_correct |-> PyFalse, feedback |-> "Error evaluating answer"]}

\* The result the button "Show Answer" stores.
answer_revealed ==
    [is_correct |-> None, feedback |-> "Answer revealed", show_only |-> PyTrue]

\* What the text area "Your answer:" holds when Check Answer is clicked.
UserAnswers == {"", "  ", "ATP"}

\* user_answer.strip()
strip_answer(user_answer) == IF user_answer = "ATP" THEN "ATP" ELSE ""

\* The statistic "Answered" counting every key of show_answer.
answered_with_revealed(show_answer) == Cardinality(DOMAIN show_answer)

\* len([k for k, v in show_answer.items() if v.get("is_correct") is not None])
answered(show_answer) ==
    Cardinality({k \in DOMAIN show_answer : show_answer[k].is_correct # None})

\* len([k for k, v in show_answer.items() if v.get("is_correct") == True])
correct(show_answer) ==
    Cardinality({k \in DOMAIN show_answer : show_answer[k].is_correct = PyTrue})

\* The variables of the extraction requests, which the apps of this section
\* leave alone.
request_vars == <<op, arg, pc, ret, exc, tmpfiles, created, extracted_data,
                  calls, preprocessed, requests, configs>>

IdleRequest ==
    /\ arg = None
    /\ pc = "done"
    /\ ret = None
    /\ exc = NoExc
    /\ tmpfiles = {}
    /\ created = {}
    /\ extracted_data = None
    /\ calls = <<>>
    /\ preprocessed = <<>>
    /\ requests = <<>>
    /\ configs = <<>>

\* The session after the first run of main(): lines 234 to 243.
FlashcardInit ==
    /\ op = "flashcard.main"
    /\ IdleRequest
    /\ session_state = [flashcards |-> <<>>, flashcard_type |-> None,
                        current_card |-> 0, user_answers |-> <<>>,
                        show_answer |-> <<>>, text_analysis |-> NoAnalysis]
    /\ displayed = ""

\* The button "Analyze Text Capacity": analyze_text_capacity is called only
\* on a text of 20 characters or more.
AnalyzeText ==
    /\ op = "flashcard.main"
    /\ \E input_text \in InputTexts :
          IF is_empty(input_text) \/ too_short(input_text)
          THEN /\ displayed' = "Please enter at least 20 characters of text to analyze"
               /\ UNCHANGED session_state
          ELSE \E analysis \in AnalysisAnswers :
                  /\ session_state' = [session_state EXCEPT !.text_analysis = analysis]
                  /\ displayed' = ""
    /\ UNCHANGED request_vars

\* The button "Generate Flashcards": the text is analysed only when the
\* session holds no analysis, and the cards are requested only when the
\* text and the number of cards are accepted.
GenerateFlashcards ==
    /\ op = "flashcard.main"
    /\ \E input_text \in InputTexts :
          IF is_empty(input_text)
          THEN /\ displayed' = "Please enter some text to generate flashcards"
               /\ UNCHANGED session_state
          ELSE IF too_short(input_text)
          THEN /\ displayed' = "Text is too short"
               /\ UNCHANGED session_state
          ELSE \E flashcard_type \in FlashcardTypes, num_cards \in NumberInputs,
                  analysis \in (IF not_analysed(session_state)
                                THEN AnalysisAnswers
                                ELSE {session_state.text_analysis}) :
                  LET analysed ==
                          [session_state EXCEPT !.text_analysis = analysis]
                      max_allowed == analysed.text_analysis.max_flashcards
                  IN  IF num_cards > max_allowed
                      THEN /\ displayed' = "Cannot generate"
                           /\ session_state' = analysed
                      ELSE \E response \in GenerationAnswers :
                              LET flashcards ==
                                      generate_flashcards(flashcard_type, response)
                              IN  IF bool(flashcards)
                                  THEN /\ session_state' =
                                             [analysed EXCEPT
                                                !.flashcards = flashcards,
                                                !.flashcard_type = flashcard_type,
                                                !.current_card = 0,
                                                !.user_answers = <<>>,
                                                !.show_answer = <<>>]
                                       /\ displayed' = "Generated"
                                  ELSE /\ session_state' = analysed
                                       /\ displayed' =
                                             generate_flashcards_error(response)
    /\ UNCHANGED request_vars

\* The button "Previous", drawn when there are flashcards.
PreviousCard ==
    /\ op = "flashcard.main"
    /\ bool(session_state.flashcards)
    /\ ~previous_disabled(session_state)
    /\ session_state' =
          [session_state EXCEPT !.current_card = session_state.current_card - 1]
    /\ displayed' = ""
    /\ UNCHANGED request_vars

\* The button "Next", drawn when there are flashcards.
NextCard ==
    /\ op = "flashcard.main"
    /\ bool(session_state.flashcards)
    /\ ~next_disabled(session_state)
    /\ session_state' =
          [session_state EXCEPT !.current_card = session_state.current_card + 1]
    /\ displayed' = ""
    /\ UNCHANGED request_vars

\* The button "Check Answer".
CheckAnswer ==
    /\ op = "flashcard.main"
    /\ bool(session_state.flashcards)
    /\ \E user_answer \in UserAnswers, result \in CheckResults :
          LET current_idx == session_state.current_card
          IN  IF strip_answer(user_answer) = ""
              THEN /\ displayed' = "Please write an answer first"
                   /\ UNCHANGED session_state
              ELSE /\ session_state' =
                         [session_state EXCEPT
                            !.user_answers = setitem(@, current_idx, user_answer),
                            !.show_answer = setitem(@, current_idx, result)]
                   /\ displayed' = ""
    /\ UNCHANGED request_vars

\* The button "Show Answer".
ShowAnswer ==
    /\ op = "flashcard.main"
    /\ bool(session_state.flashcards)
    /\ session_state' =
          [session_state EXCEPT
             !.show_answer = setitem(@, session_state.current_card,
                                     answer_revealed)]
    /\ displayed' = ""
    /\ UNCHANGED request_vars

FlashcardNext ==
    \/ AnalyzeText
    \/ GenerateFlashcards
    \/ PreviousCard
    \/ NextCard
    \/ CheckAnswer
    \/ ShowAnswer

FlashcardSpec == FlashcardInit /\ [][FlashcardNext]_vars

(***************************************************************************)
(* C27.  In the flashcard app, whenever there are flashcards the index of  *)
(* the current card is one of theirs: 0 <= current_card <= len - 1.        *)
(* Previous acts only above index 0, Next only below the last index, and   *)
(* a Generate that succeeds sets the index to 0.                           *)
(***************************************************************************)
C27_CurrentCardInRange ==
    /\ [](bool(session_state.flashcards) =>
             /\ 0 <= session_state.current_card
             /\ session_state.current_card <= Len(session_state.flashcards) - 1)
    /\ [][/\ PreviousCard =>
                /\ session_state.current_card > 0
                /\ session_state'.current_card = session_state.current_card - 1
          /\ NextCard =>
                /\ session_state.current_card < Len(session_state.flashcards) - 1
                /\ session_state'.current_card = session_state.current_card + 1
          /\ (GenerateFlashcards /\ displayed' = "Generated") =>
                session_state'.current_card = 0]_vars

\* The last of two cards is the current one.
C27_Witness ==
    /\ op = "flashcard.main"
    /\ Len(session_state.flashcards) = 2
    /\ session_state.current_card = 1

(***************************************************************************)
(* C28.  A Generate that is rejected (no text, text shorter than 20        *)
(* characters, more cards asked than the analysis allows) or that fails    *)
(* (the request raises, the answer is not JSON, the answer is an empty     *)
(* list) leaves flashcards, flashcard_type, current_card, user_answers and *)
(* show_answer as they were.  A Generate that succeeds replaces the deck   *)
(* by a non-empty deck of the chosen type and sets current_card to 0 and   *)
(* user_answers and show_answer to the empty dict.                         *)
(***************************************************************************)
C28_FailedGenerateKeepsDeck ==
    [][GenerateFlashcards =>
          IF displayed' = "Generated"
          THEN /\ Len(session_state'.flashcards) >= 1
               /\ session_state'.flashcard_type \in FlashcardTypes
               /\ \A i \in 1..Len(session_state'.flashcards) :
                     session_state'.flashcards[i]
                        = Card(session_state'.flashcard_type, i)
               /\ session_state'.current_card = 0
               /\ session_state'.user_answers = <<>>
               /\ session_state'.show_answer = <<>>
          ELSE /\ displayed' \in
                     {"Please enter some text to generate flashcards",
                      "Text is too short", "Cannot generate",
                      "Error generating flashcards",
                      "Error parsing flashcards", ""}
               /\ session_state'.flashcards = session_state.flashcards
               /\ session_state'.flashcard_type = session_state.flashcard_type
               /\ session_state'.current_card = session_state.current_card
               /\ session_state'.user_answers = session_state.user_answers
               /\ session_state'.show_answer = session_state.show_answer]_vars

\* A Generate whose answer did not parse, on a session that holds a deck,
\* its second card current and an answer checked.
C28_Witness ==
    /\ op = "flashcard.main"
    /\ displayed = "Error parsing flashcards"
    /\ Len(session_state.flashcards) = 2
    /\ session_state.current_card = 1
    /\ DOMAIN session_state.user_answers = {1}
    /\ DOMAIN session_state.show_answer = {1}

(***************************************************************************)
(* C29.  In the statistics of the flashcard app, correct <= answered <=    *)
(* len(flashcards).  Every key of show_answer is an index of the current   *)
(* deck; a card revealed by Show Answer is not counted as answered; the    *)
(* cards counted as correct are those whose check returned is_correct      *)
(* True.                                                                   *)
(***************************************************************************)
Revealed == {k \in DOMAIN session_state.show_answer :
               session_state.show_answer[k] = answer_revealed}
Checked == (DOMAIN session_state.show_answer) \ Revealed

C29_StatisticsBounded ==
    op = "flashcard.main" =>
        /\ DOMAIN session_state.show_answer
              \subseteq 0..(Len(session_state.flashcards) - 1)
        /\ correct(session_state.show_answer) <= answered(session_state.show_answer)
        /\ answered(session_state.show_answer) <= Len(session_state.flashcards)
        /\ answered(session_state.show_answer) = Cardinality(Checked)
        /\ correct(session_state.show_answer) =
              Cardinality({k \in Checked :
                             session_state.show_answer[k].is_correct = PyTrue})
        /\ \A k \in Checked : session_state.show_answer[k] \in CheckResults

\* Two cards, the first revealed, the second checked and correct: one card
\* answered, one correct.
C29_Witness ==
    /\ op = "flashcard.main"
    /\ Len(session_state.flashcards) = 2
    /\ Revealed = {0}
    /\ Checked = {1}
    /\ answered(session_state.show_answer) = 1
    /\ correct(session_state.show_answer) = 1

(***************************************************************************)
(* The OCR app (src/processors.py, main).  arg is the value of the file    *)
(* uploader, session_state the dict st.session_state (without keys before  *)
(* the first extraction), and displayed what the last run of main() put on *)
(* the page: the file details, the extracted text and the name of the      *)
(* download, each a list of no or one element, and the exception that      *)
(* ended the run, if any.                                                  *)
(***************************************************************************)
\* The files a user uploads: a name, made of a stem and an extension of the
\* type list of the uploader, and the content of the file.
UploadedImages ==
    {i \in OcrImages : i.pre /\ (i.ocr.exc # NoExc \/ Len(i.ocr.val) > 1)}

UploadImages ==
    {[kind |-> "image", openable |-> FALSE, image |-> BrokenImage]}
    \cup {[kind |-> "image", openable |-> TRUE, image |-> i] :
            i \in UploadedImages}

UploadPdfs ==
    {[kind |-> "pdf", readable |-> TRUE, pages |-> <<i>>] :
       i \in UploadedImages}

UploadDocxs ==
    {[kind |-> "docx", readable |-> TRUE, body |-> <<>>],
     [kind |-> "docx", readable |-> TRUE,
      body |-> <<Para(<<"Intro">>, <<>>)>>]}

Uploads ==
    [stem : {"a", "b"}, extension : {"png", "PNG", "tiff"}, file : UploadImages]
    \cup [stem : {"a", "b"}, extension : {"pdf"}, file : UploadPdfs]
    \cup [stem : {"a", "b"}, extension : {"docx"}, file : UploadDocxs]

\* uploaded_file.name
upload_name(uploaded_file) ==
    <<uploaded_file.stem, ".", uploaded_file.extension>>

\* uploaded_file.name.split('.')[-1].lower()
file_extension(uploaded_file) ==
    IF uploaded_file.extension = "PNG" THEN "png" ELSE uploaded_file.extension

\* if 'extracted_text' in st.session_state
shows_extracted_text(state, uploaded_file) == "extracted_text" \in DOMAIN state

\* One run of main() of processors.py: what it leaves in the session and
\* what it displays.  clicked says whether the run is the one that follows
\* a click on "Extract Text".
ocr_main(state, uploader, clicked) ==
    IF ~uploader.uploaded
    THEN [state |-> state,
          page |-> [file_details |-> <<>>, extracted_text |-> <<>>,
                    download |-> <<>>, exception |-> NoExc]]
    ELSE LET uploaded_file == uploader.uploaded_file
             extension == file_extension(uploaded_file)
             preview ==
                 IF extension \in {"jpg", "jpeg", "png", "bmp", "gif"}
                 THEN Image_open(uploaded_file.file).exc
                 ELSE NoExc
             r == process_file(uploaded_file.file, extension, TRUE)
             crashed == IF preview # NoExc THEN preview
                        ELSE IF clicked THEN r.exc
                        ELSE NoExc
             after ==
                 IF clicked /\ crashed = NoExc
                 THEN [extracted_text |-> r.val,
                       filename |-> upload_name(uploaded_file)]
                 ELSE state
             shown == crashed = NoExc /\ shows_extracted_text(after, uploaded_file)
         IN  [state |-> after,
              page |-> [file_details |-> <<upload_name(uploaded_file)>>,
                        extracted_text |->
                            IF shown THEN <<after.extracted_text>> ELSE <<>>,
                        download |->
                            IF shown
                            THEN <<after.filename \o <<"_extracted.txt">> >>
                            ELSE <<>>,
                        exception |-> crashed]]

\* The session and the page of the first run of main(), without a file.
OcrAppInit ==
    /\ op = "processors.main"
    /\ arg = [uploaded |-> FALSE]
    /\ pc = "done"
    /\ ret = None
    /\ exc = NoExc
    /\ tmpfiles = {}
    /\ created = {}
    /\ extracted_data = None
    /\ calls = <<>>
    /\ preprocessed = <<>>
    /\ requests = <<>>
    /\ configs = <<>>
    /\ session_state = <<>>
    /\ displayed = ocr_main(<<>>, [uploaded |-> FALSE], FALSE).page

\* The user puts a file in the uploader, or another one in its place.
UploadFile ==
    /\ op = "processors.main"
    /\ \E uploaded_file \in Uploads :
          /\ arg' = [uploaded |-> TRUE, uploaded_file |-> uploaded_file]
          /\ arg' # arg
          /\ session_state' = ocr_main(session_state, arg', FALSE).state
          /\ displayed' = ocr_main(session_state, arg', FALSE).page
    /\ UNCHANGED <<op, pc, ret, exc, tmpfiles, created, extracted_data, calls,
                   preprocessed, requests, configs>>

\* The user takes the file out of the uploader.
RemoveFile ==
    /\ op = "processors.main"
    /\ arg.uploaded
    /\ arg' = [uploaded |-> FALSE]
    /\ session_state' = ocr_main(session_state, arg', FALSE).state
    /\ displayed' = ocr_main(session_state, arg', FALSE).page
    /\ UNCHANGED <<op, pc, ret, exc, tmpfiles, created, extracted_data, calls,
                   preprocessed, requests, configs>>

\* The button "Extract Text", which a run draws when a file is uploaded and
\* its preview did not end the run.
ExtractText ==
    /\ op = "processors.main"
    /\ arg.uploaded
    /\ displayed.exception = NoExc
    /\ session_state' = ocr_main(session_state, arg, TRUE).state
    /\ displayed' = ocr_main(session_state, arg, TRUE).page
    /\ calls' = process_file_calls(arg.uploaded_file.file,
                                   file_extension(arg.uploaded_file), TRUE)
    /\ configs' = process_file_configs(arg.uploaded_file.file,
                                       file_extension(arg.uploaded_file), TRUE)
    /\ created' = IF process_file(arg.uploaded_file.file,
                                  file_extension(arg.uploaded_file), TRUE).tmp
                     = "none"
                  THEN {} ELSE {NamedTemporaryFile}
    /\ UNCHANGED <<op, arg, pc, ret, exc, tmpfiles, extracted_data,
                   preprocessed, requests>>

OcrAppNext ==
    \/ UploadFile
    \/ RemoveFile
    \/ ExtractText

OcrAppSpec == OcrAppInit /\ [][OcrAppNext]_vars

(***************************************************************************)
(* C30, as claimed.  In the OCR app, the extracted text that is displayed  *)
(* and offered for download is the extraction of the file that is          *)
(* currently uploaded: after a file has been replaced by another one and   *)
(* before Extract is clicked again, the page does not show the text of the *)
(* file before next to the details of the new one.                         *)
(***************************************************************************)
C30_DisplayedTextIsOfUploadedFile ==
    (op = "processors.main" /\ arg.uploaded /\ displayed.extracted_text # <<>>)
        => /\ displayed.file_details = <<upload_name(arg.uploaded_file)>>
           /\ displayed.extracted_text =
                 <<process_file(arg.uploaded_file.file,
                                file_extension(arg.uploaded_file), TRUE).val>>
           /\ displayed.download =
                 <<upload_name(arg.uploaded_file) \o <<"_extracted.txt">> >>

====
